---- MODULE Spec2Model ----
(***************************************************************************)
(* Treasury tracker: the consistency normalizer (utils/consistency.ts),    *)
(* the aggregation engine (utils/calculations.ts) and the two repository   *)
(* backends (localStorage and Firestore).                                  *)
(*                                                                         *)
(* JavaScript values are tagged records, JavaScript objects are sequences  *)
(* of <<key, value>> pairs in property order, so that the spread operator, *)
(* JSON.stringify (which drops undefined properties and depends on the     *)
(* property order) and the deep comparison behind `changed` are modelled   *)
(* by what they do.                                                        *)
(***************************************************************************)
EXTENDS Integers, Sequences, FiniteSets, TLC

VARIABLES
    now,            \* the wall clock read by `new Date()`
    snapshot,       \* argument of normalizeTreasurySnapshot
    normalized,     \* its result {snapshot, changed}, or None before the call
    renormalized,   \* result of a second pass over normalized.snapshot
    input,          \* argument of normalizeTransactionInput
    inputCategories,\* its category list
    inputResult,    \* its result, or None before the call
    ledger,         \* transaction list given to the aggregation engine
    fund,           \* initialFund
    balance,        \* result of calculateBalance, or None before the call
    backend,        \* "local" or "firebase": the repository in use
    localStorage,   \* the four localStorage items
    firestore,      \* the user's Firestore collections and settings document
    issued,         \* number of ids generated so far
    calls,          \* number of repository calls made so far
    response,       \* what the last repository call did and returned
    invocation,     \* a core function and its arguments
    outputs,        \* what each invocation so far returned, and when
    selectedMonth,  \* the month a report is asked for
    stats,          \* getMonthlyStats of the ledger for that month, or None
    weeklyBreakdown,\* getWeeklyBreakdown of the ledger for that month, and when
    pending,        \* the repository and hook operations in flight
    hook            \* the state of useTreasury

normVars == <<snapshot, normalized, renormalized>>
inputVars == <<input, inputCategories, inputResult>>
calcVars == <<ledger, fund, balance>>
repoVars == <<backend, localStorage, firestore, issued, calls, response>>

coreVars == <<invocation, outputs>>

reportVars == <<selectedMonth, stats, weeklyBreakdown>>

asyncVars == <<pending, hook>>

vars == <<now, normVars, inputVars, calcVars, repoVars, coreVars, reportVars,
          asyncVars>>

None == [none |-> TRUE]

-----------------------------------------------------------------------------
(* JavaScript values *)

Str(x)  == [t |-> "str",   s |-> x,  n |-> 0, a |-> <<>>]
Num(x)  == [t |-> "num",   s |-> "", n |-> x, a |-> <<>>]
Bool(b) == [t |-> "bool",  s |-> "", n |-> IF b THEN 1 ELSE 0, a |-> <<>>]
Arr(xs) == [t |-> "arr",   s |-> "", n |-> 0, a |-> xs]
Obj(o)  == [t |-> "obj",   s |-> "", n |-> 0, a |-> o]
Undef   == [t |-> "undef", s |-> "", n |-> 0, a |-> <<>>]
Null    == [t |-> "null",  s |-> "", n |-> 0, a |-> <<>>]
NaN     == [t |-> "nan",   s |-> "", n |-> 0, a |-> <<>>]
Inf     == [t |-> "inf",   s |-> "", n |-> 0, a |-> <<>>]

\* JavaScript truthiness: undefined, null, "", 0, NaN and false are falsy.
Truthy(v) ==
    CASE v.t = "str"  -> v.s # ""
      [] v.t = "num"  -> v.n # 0
      [] v.t = "bool" -> v.n = 1
      [] v.t = "arr"  -> TRUE
      [] v.t = "obj"  -> TRUE
      [] v.t = "inf"  -> TRUE
      [] OTHER        -> FALSE

\* a ?? b
Nullish(v) == v.t \in {"undef", "null"}

\* String.prototype.trim over the strings the model uses.
Trim(s) ==
    CASE s = "  "          -> ""
      [] s = " "           -> ""
      [] s = " pastel "    -> "pastel"
      [] s = " Actividad " -> "Actividad"
      [] s = " r "         -> "r"
      [] OTHER             -> s

\* Number(v): numeric strings parse, "" and null are 0, anything else is NaN.
ToNumber(v) ==
    CASE v.t = "num"  -> v
      [] v.t = "inf"  -> v
      [] v.t = "bool" -> Num(v.n)
      [] v.t = "null" -> Num(0)
      [] v.t = "str"  ->
            CASE v.s = ""     -> Num(0)
              [] v.s = "5"    -> Num(5)
              [] v.s = " 7 "  -> Num(7)
              [] v.s = "-5"   -> Num(-5)
              [] OTHER        -> NaN
      [] OTHER        -> NaN

\* Number.isFinite(v): false for every non-number (no coercion).
NumberIsFinite(v) == v.t = "num"

-----------------------------------------------------------------------------
(* JavaScript objects: sequences of <<key, value>> in property order *)

Has(o, k) == \E i \in DOMAIN o : o[i][1] = k

Get(o, k) ==
    IF Has(o, k) THEN o[CHOOSE i \in DOMAIN o : o[i][1] = k][2] ELSE Undef

\* {...o, k: v}: an existing property keeps its position, a new one is appended.
Put(o, k, v) ==
    IF Has(o, k)
    THEN [i \in DOMAIN o |-> IF o[i][1] = k THEN <<k, v>> ELSE o[i]]
    ELSE Append(o, <<k, v>>)

\* {...a, ...b}
RECURSIVE Spread(_, _)
Spread(a, b) ==
    IF b = <<>> THEN a
    ELSE Spread(Put(a, b[1][1], b[1][2]), Tail(b))

\* JSON.stringify of a value: NaN and Infinity are written as null.
JsonValue(v) == IF v.t \in {"nan", "inf"} THEN Null ELSE v

\* JSON.stringify of an object: properties in order, undefined ones omitted.
RECURSIVE StringifyObject(_)
StringifyObject(o) ==
    IF o = <<>> THEN <<>>
    ELSE IF o[1][2].t = "undef" THEN StringifyObject(Tail(o))
    ELSE <<<<o[1][1], JsonValue(o[1][2])>>>> \o StringifyObject(Tail(o))

\* JSON.stringify of an array of objects.
StringifyArray(xs) == [i \in DOMAIN xs |-> StringifyObject(xs[i])]

\* Array.prototype.filter(Boolean) over an array of strings.
FilterBoolean(xs) == SelectSeq(xs, LAMBDA x : x # "")

-----------------------------------------------------------------------------
(* Calendar (date-fns).  A Date is [day, ms]: a day of the calendar below   *)
(* and the milliseconds since local midnight.  Date strings carry no zone  *)
(* designator, so parsing and formatting use the same local time.          *)

Months ==
    << [y |-> 2023, m |-> 12, len |-> 31],
       [y |-> 2024, m |-> 1,  len |-> 31],
       [y |-> 2024, m |-> 2,  len |-> 29] >>

RECURSIVE FirstDayOf(_)
FirstDayOf(i) == IF i = 1 THEN 0 ELSE FirstDayOf(i - 1) + Months[i - 1].len

LastDayOf(i) == FirstDayOf(i) + Months[i].len - 1

Days == 0 .. LastDayOf(Len(Months))

MonthIndex(d) ==
    CHOOSE i \in DOMAIN Months : FirstDayOf(i) <= d /\ d <= LastDayOf(i)

DayOf(y, m, dd) ==
    FirstDayOf(CHOOSE i \in DOMAIN Months : Months[i].y = y /\ Months[i].m = m)
        + dd - 1

MsPerDay == 24 * 60 * 60 * 1000

InvalidDate == [day |-> -1, ms |-> -1]

isValid(date) == date # InvalidDate

Pad2(k) == IF k < 10 THEN "0" \o ToString(k) ELSE ToString(k)

\* format(date, 'yyyy-MM-dd')
format(date) ==
    LET i == MonthIndex(date.day)
    IN  ToString(Months[i].y) \o "-" \o Pad2(Months[i].m) \o "-"
            \o Pad2(date.day - FirstDayOf(i) + 1)

\* The time parts a date string of the model may carry.
TimeSuffixes ==
    { [sfx |-> "", ms |-> 0],
      [sfx |-> "T10:30:00", ms |-> (10 * 60 + 30) * 60 * 1000] }

ParseTable ==
    { [str |-> format([day |-> d, ms |-> 0]) \o t.sfx,
       date |-> [day |-> d, ms |-> t.ms]] : d \in Days, t \in TimeSuffixes }

\* parseISO(value): Invalid Date for anything that is not an ISO date string.
parseISO(v) ==
    IF v.t = "str" /\ \E e \in ParseTable : e.str = v.s
    THEN (CHOOSE e \in ParseTable : e.str = v.s).date
    ELSE InvalidDate

\* new Date().toISOString()
toISOString(date) == format(date) \o "T08:00:00.000Z"

startOfMonth(date) == [day |-> FirstDayOf(MonthIndex(date.day)), ms |-> 0]

endOfMonth(date) ==
    [day |-> LastDayOf(MonthIndex(date.day)), ms |-> MsPerDay - 1]

endOfDay(date) == [day |-> date.day, ms |-> MsPerDay - 1]

isSameMonth(a, b) == MonthIndex(a.day) = MonthIndex(b.day)

\* a.getTime() < b.getTime()
isBefore(a, b) == a.day < b.day \/ (a.day = b.day /\ a.ms < b.ms)

\* a.getTime() <= b.getTime()
NotAfter(a, b) == ~isBefore(b, a)

\* Day of the week, Monday = 0: the first day of the calendar, 2023-12-01,
\* is a Friday.
WeekDay(day) == (day + 4) % 7

\* startOfWeek(date, {weekStartsOn: 1}); it may fall before the calendar.
startOfWeek(date) == [day |-> date.day - WeekDay(date.day), ms |-> 0]

\* endOfWeek(date, {weekStartsOn: 1})
\* The end of a week that stops on Saturday.
endOfWeekOnSaturday(date) ==
    [day |-> date.day - WeekDay(date.day) + 5, ms |-> MsPerDay - 1]

endOfWeek(date) ==
    [day |-> date.day - WeekDay(date.day) + 6, ms |-> MsPerDay - 1]

\* eachWeekOfInterval({start, end}, {weekStartsOn: 1}): the Mondays from the
\* week of `start` to the week of `end`.
eachWeekOfInterval(start, end) ==
    [k \in 1 .. ((startOfWeek(end).day - startOfWeek(start).day) \div 7 + 1)
        |-> [day |-> startOfWeek(start).day + 7 * (k - 1), ms |-> 0]]

\* isWithinInterval(date, {start, end}): both ends included; comparisons
\* with an Invalid Date are false.
\* An interval that leaves its first instant out.
isWithinIntervalAfterStart(date, start, end) ==
    isValid(date) /\ isBefore(start, date) /\ NotAfter(date, end)

isWithinInterval(date, start, end) ==
    isValid(date) /\ NotAfter(start, date) /\ NotAfter(date, end)

\* subMonths(date, 1): same day of the previous month, clamped to its length.
subMonths(date) ==
    [day |-> FirstDayOf(MonthIndex(date.day) - 1) - 1
             + (IF date.day - FirstDayOf(MonthIndex(date.day)) + 1
                     <= Months[MonthIndex(date.day) - 1].len
                THEN date.day - FirstDayOf(MonthIndex(date.day)) + 1
                ELSE Months[MonthIndex(date.day) - 1].len),
     ms |-> date.ms]

-----------------------------------------------------------------------------
(* utils/consistency.ts *)

DEFAULT_SETTINGS ==
    << <<"currentPeriodId", Null>>,
       <<"hasCompletedOnboarding", Bool(FALSE)>>,
       <<"theme", Str("light")>> >>

UNCATEGORIZED_PREFIX == "cat-uncategorized-"

TRANSACTION_TYPES == {"income", "donation", "investment", "expense"}

isTransactionType(v) == v.t = "str" /\ v.s \in TRANSACTION_TYPES

normalizeDate(v) ==
    LET parsed == parseISO(v)
    IN  IF ~isValid(parsed) THEN Null ELSE Str(format(parsed))

\* categories.find(c => c.id === id): index of the first match, 0 if none.
FindCategory(categories, id) ==
    IF \E i \in DOMAIN categories : Get(categories[i], "id") = id
    THEN CHOOSE i \in DOMAIN categories :
            /\ Get(categories[i], "id") = id
            /\ \A j \in 1 .. (i - 1) : Get(categories[j], "id") # id
    ELSE 0

\* Mutant of ensureUncategorizedCategory: no lookup of an existing
\* placeholder, a new one is pushed on every call.
ensureUncategorizedCategoryAlwaysCreates(categories, type) ==
    LET created == << <<"id", Str(UNCATEGORIZED_PREFIX \o type)>>,
                      <<"name", Str("Sin categoría")>>,
                      <<"type", Str(type)>>, <<"isDefault", Bool(TRUE)>> >>
    IN  [category |-> created, categories |-> Append(categories, created)]

\* Returns [category, categories]: the array is extended in place when the
\* placeholder is created.
ensureUncategorizedCategory(categories, type) ==
    LET id == Str(UNCATEGORIZED_PREFIX \o type)
        existing == FindCategory(categories, id)
        created == << <<"id", id>>, <<"name", Str("Sin categoría")>>,
                      <<"type", Str(type)>>, <<"isDefault", Bool(TRUE)>> >>
    IN  IF existing # 0
        THEN [category |-> categories[existing], categories |-> categories]
        ELSE [category |-> created, categories |-> Append(categories, created)]

\* The forEach without the seen.has(category.id) return.
RECURSIVE normalizeCategoriesLoopKeepsRepeats(_, _, _)
normalizeCategoriesLoopKeepsRepeats(categories, seen, acc) ==
    IF categories = <<>> THEN acc
    ELSE LET category == Head(categories)
             id == Get(category, "id")
             name == Get(category, "name")
             isDefault == Get(category, "isDefault")
             trimmed == Trim(name.s)
         IN  IF \/ ~Truthy(id) \/ ~Truthy(name)
                \/ ~isTransactionType(Get(category, "type"))
             THEN normalizeCategoriesLoopKeepsRepeats(Tail(categories), seen,
                                                     acc)
             ELSE normalizeCategoriesLoopKeepsRepeats(Tail(categories), seen,
                    Append(acc,
                      Spread(category,
                        << <<"name", Str(IF trimmed # "" THEN trimmed
                                                        ELSE "Sin nombre")>>,
                           <<"isDefault", IF Nullish(isDefault)
                                          THEN Bool(FALSE) ELSE isDefault>> >>)))

RECURSIVE normalizeCategoriesLoop(_, _, _)
normalizeCategoriesLoop(categories, seen, acc) ==
    IF categories = <<>> THEN acc
    ELSE LET category == Head(categories)
             id == Get(category, "id")
             name == Get(category, "name")
             isDefault == Get(category, "isDefault")
             trimmed == Trim(name.s)
         IN  IF \/ ~Truthy(id) \/ ~Truthy(name)
                \/ ~isTransactionType(Get(category, "type"))
                \/ id \in seen
             THEN normalizeCategoriesLoop(Tail(categories), seen, acc)
             ELSE normalizeCategoriesLoop(Tail(categories), seen \cup {id},
                    Append(acc,
                      Spread(category,
                        << <<"name", Str(IF trimmed # "" THEN trimmed
                                                        ELSE "Sin nombre")>>,
                           <<"isDefault", IF Nullish(isDefault)
                                          THEN Bool(FALSE) ELSE isDefault>> >>)))

normalizeCategories(categories) == normalizeCategoriesLoop(categories, {}, <<>>)

\* value?.trim() || fallback
TrimOr(v, fallback) ==
    IF Nullish(v) \/ Trim(v.s) = "" THEN fallback ELSE Str(Trim(v.s))

normalizePeriod(period, clock) ==
    LET startDate == normalizeDate(Get(period, "startDate"))
        endDate == normalizeDate(Get(period, "endDate"))
        initialFund == Get(period, "initialFund")
        createdAt == Get(period, "createdAt")
    IN  Spread(period,
          << <<"name", TrimOr(Get(period, "name"), Str("Periodo"))>>,
             <<"startDate", IF Nullish(startDate)
                            THEN Get(period, "startDate") ELSE startDate>>,
             <<"endDate", IF Nullish(endDate)
                          THEN Get(period, "endDate") ELSE endDate>>,
             <<"initialFund", IF NumberIsFinite(initialFund)
                              THEN initialFund ELSE Num(0)>>,
             <<"createdAt", IF Truthy(createdAt) THEN createdAt
                            ELSE Str(toISOString(clock))>> >>)

normalizePeriods(periods, clock) ==
    LET kept == SelectSeq(periods,
                  LAMBDA p : Truthy(Get(p, "id")) /\ Truthy(Get(p, "name")))
    IN  [i \in DOMAIN kept |-> normalizePeriod(kept[i], clock)]

normalizeSettings(settings) ==
    LET currentPeriodId == Get(settings, "currentPeriodId")
    IN  << <<"currentPeriodId", IF Nullish(currentPeriodId)
                                THEN Null ELSE currentPeriodId>>,
           <<"hasCompletedOnboarding",
                Bool(Truthy(Get(settings, "hasCompletedOnboarding")))>>,
           <<"theme", IF Get(settings, "theme") = Str("dark")
                      THEN Str("dark") ELSE Str("light")>> >>

\* new Map(categories.map(c => [c.id, c])): a later entry replaces an earlier
\* one with the same id.
MapSet(map, key, value) ==
    [k \in DOMAIN map \cup {key} |-> IF k = key THEN value ELSE map[k]]

RECURSIVE CategoryMap(_)
CategoryMap(categories) ==
    IF categories = <<>> THEN << >>
    ELSE LET last == categories[Len(categories)]
             rest == CategoryMap(SubSeq(categories, 1, Len(categories) - 1))
         IN  MapSet(rest, Get(last, "id"), last)

\* The movement is filed under the placeholder `fallback` holds.
FiledUnder(fallback, categoryMap) ==
    [categoryId |-> Get(fallback.category, "id"),
     categories |-> fallback.categories,
     categoryMap |-> MapSet(categoryMap, Get(fallback.category, "id"),
                            fallback.category)]

\* The category a movement of `type` with `categoryId` is filed under:
\* [categoryId, categories, categoryMap] (lines 333-339 and 414-420).
ResolveCategory(categoryId, type, categories, categoryMap) ==
    IF categoryId \in DOMAIN categoryMap
         /\ Get(categoryMap[categoryId], "type") = Str(type)
    THEN [categoryId |-> categoryId, categories |-> categories,
          categoryMap |-> categoryMap]
    ELSE FiledUnder(ensureUncategorizedCategory(categories, type), categoryMap)

\* The fields both normalizers rewrite on a movement.
CleanedFields(transaction, amount, date, categoryId) ==
    LET description == Get(transaction, "description")
        tags == Get(transaction, "tags")
    IN  << <<"amount", amount>>,
           <<"date", date>>,
           <<"categoryId", categoryId>>,
           <<"description", TrimOr(description, Str(""))>>,
           <<"tags", IF Nullish(tags) THEN Undef
                     ELSE Arr(FilterBoolean(tags.a))>>,
           <<"paymentMethod", TrimOr(Get(transaction, "paymentMethod"), Undef)>>,
           <<"receipt", TrimOr(Get(transaction, "receipt"), Undef)>> >>

\* The early returns without the one for a date that does not parse.
IsDroppedTransactionAnyDate(transaction) ==
    \/ ~Truthy(Get(transaction, "id"))
    \/ ~isTransactionType(Get(transaction, "type"))
    \/ ~NumberIsFinite(ToNumber(Get(transaction, "amount")))
    \/ ToNumber(Get(transaction, "amount")).n <= 0

\* Whether the forEach body returns early (lines 324-331).
IsDroppedTransaction(transaction) ==
    LET amount == ToNumber(Get(transaction, "amount"))
    IN  \/ ~Truthy(Get(transaction, "id"))
        \/ ~isTransactionType(Get(transaction, "type"))
        \/ ~NumberIsFinite(amount)
        \/ amount.n <= 0
        \/ Nullish(normalizeDate(Get(transaction, "date")))

\* Mutant of CreatedAtOr: the stored createdAt is ignored.
CreatedAtAlwaysNow(transaction, clock) == Str(toISOString(clock))

\* transaction.createdAt || new Date().toISOString()
CreatedAtOr(transaction, clock) ==
    IF Truthy(Get(transaction, "createdAt"))
    THEN Get(transaction, "createdAt")
    ELSE Str(toISOString(clock))

\* The record pushed for a kept movement (lines 341-357).
NormalizedTransaction(transaction, categoryId, clock) ==
    Spread(transaction,
           CleanedFields(transaction,
                         ToNumber(Get(transaction, "amount")),
                         normalizeDate(Get(transaction, "date")),
                         categoryId)
           \o << <<"createdAt", CreatedAtOr(transaction, clock)>>,
                 <<"updatedAt", IF Truthy(Get(transaction, "updatedAt"))
                                THEN Get(transaction, "updatedAt")
                                ELSE CreatedAtOr(transaction, clock)>> >>)

RECURSIVE normalizeTransactionsLoop(_, _, _, _, _)

\* The forEach body for a kept movement, `r` being its resolved category.
KeepTransaction(transaction, rest, r, acc, clock) ==
    normalizeTransactionsLoop(rest, r.categories, r.categoryMap,
        Append(acc, NormalizedTransaction(transaction, r.categoryId, clock)),
        clock)

normalizeTransactionsLoop(transactions, categories, categoryMap, acc, clock) ==
    IF transactions = <<>>
    THEN [transactions |-> acc, categories |-> categories]
    ELSE IF IsDroppedTransaction(Head(transactions))
    THEN normalizeTransactionsLoop(Tail(transactions), categories,
                                   categoryMap, acc, clock)
    ELSE KeepTransaction(Head(transactions), Tail(transactions),
             ResolveCategory(Get(Head(transactions), "categoryId"),
                             Get(Head(transactions), "type").s,
                             categories, categoryMap),
             acc, clock)

normalizeTransactions(transactions, categories, clock) ==
    normalizeTransactionsLoop(transactions, categories,
                              CategoryMap(categories), <<>>, clock)

\* Mutant of RepairCurrentPeriodId: the periodIds.has() test is missing.
RepairCurrentPeriodIdUnchecked(currentPeriodId, periods) ==
    IF Truthy(currentPeriodId) THEN currentPeriodId
    ELSE IF periods = <<>> THEN Null
    ELSE Get(periods[1], "id")

\* settings.currentPeriodId && periodIds.has(..) ? .. : periods[0]?.id ?? null
RepairCurrentPeriodId(currentPeriodId, periods) ==
    IF Truthy(currentPeriodId)
         /\ \E i \in DOMAIN periods : Get(periods[i], "id") = currentPeriodId
    THEN currentPeriodId
    ELSE IF periods = <<>> \/ Nullish(Get(periods[1], "id")) THEN Null
    ELSE Get(periods[1], "id")

\* The `changed` flag (lines 383-387).
\* The comparison that leaves the settings out.
SnapshotChangedButSettings(raw, normalizedSnapshot) ==
    \/ StringifyArray(raw.transactions)
            # StringifyArray(normalizedSnapshot.transactions)
    \/ StringifyArray(raw.categories)
            # StringifyArray(normalizedSnapshot.categories)
    \/ StringifyArray(raw.periods) # StringifyArray(normalizedSnapshot.periods)

SnapshotChanged(raw, normalizedSnapshot) ==
    \/ StringifyArray(raw.transactions)
            # StringifyArray(normalizedSnapshot.transactions)
    \/ StringifyArray(raw.categories)
            # StringifyArray(normalizedSnapshot.categories)
    \/ StringifyArray(raw.periods) # StringifyArray(normalizedSnapshot.periods)
    \/ StringifyObject(raw.settings)
            # StringifyObject(normalizedSnapshot.settings)

\* The normalized snapshot (lines 373-381), from the normalized parts:
\* `nt` is what normalizeTransactions returned.
NormalizedSnapshot(nt, periods, settings) ==
    [transactions |-> nt.transactions,
     categories   |-> nt.categories,
     periods      |-> periods,
     settings     |->
         Put(settings, "currentPeriodId",
             RepairCurrentPeriodId(Get(settings, "currentPeriodId"), periods))]

SnapshotResult(raw, normalizedSnapshot) ==
    [snapshot |-> normalizedSnapshot,
     changed  |-> SnapshotChanged(raw, normalizedSnapshot)]

normalizeTreasurySnapshot(raw, clock) ==
    SnapshotResult(raw,
        NormalizedSnapshot(
            normalizeTransactions(raw.transactions,
                                  normalizeCategories(raw.categories), clock),
            normalizePeriods(raw.periods, clock),
            normalizeSettings(Spread(DEFAULT_SETTINGS, raw.settings))))

\* Mutant of IsRejectedInput: the amount test is `< 0`, so 0 is accepted.
IsRejectedInputAllowsZero(value) ==
    \/ ~Truthy(value)
    \/ ~isTransactionType(Get(value.a, "type"))
    \/ ~NumberIsFinite(ToNumber(Get(value.a, "amount")))
    \/ ToNumber(Get(value.a, "amount")).n < 0
    \/ Nullish(normalizeDate(Get(value.a, "date")))

\* The early `return null` of normalizeTransactionInput (lines 402-409).
\* `value` is null, undefined or Obj(fields).
IsRejectedInput(value) ==
    \/ ~Truthy(value)
    \/ ~isTransactionType(Get(value.a, "type"))
    \/ ~NumberIsFinite(ToNumber(Get(value.a, "amount")))
    \/ ToNumber(Get(value.a, "amount")).n <= 0
    \/ Nullish(normalizeDate(Get(value.a, "date")))

\* Returns Null, or [transaction, categories, changed].
\* The cleaned movement (lines 422-431), filed under `categoryId`.
NormalizedInput(fields, categoryId) ==
    Spread(fields,
           CleanedFields(fields, ToNumber(Get(fields, "amount")),
                         normalizeDate(Get(fields, "date")), categoryId))

\* The object returned (lines 433-437); `r` is the resolved category.
InputResult(fields, transaction, r, categories) ==
    [transaction |-> transaction,
     categories  |-> r.categories,
     changed     |->
         \/ StringifyObject(fields) # StringifyObject(transaction)
         \/ Len(r.categories) # Len(categories)]

AcceptedInput(fields, r, categories) ==
    InputResult(fields, NormalizedInput(fields, r.categoryId), r, categories)

normalizeTransactionInput(value, categories) ==
    IF IsRejectedInput(value) THEN Null
    ELSE AcceptedInput(value.a,
             ResolveCategory(Get(value.a, "categoryId"),
                             Get(value.a, "type").s,
                             categories, CategoryMap(categories)),
             categories)

-----------------------------------------------------------------------------
(* utils/calculations.ts: a Transaction here is a normalized record *)

getInvestmentAmount(transaction) ==
    IF Get(transaction, "type") = Str("investment")
    THEN Get(transaction, "amount").n ELSE 0

\* Mutant of getTransactionInflow: investments are not counted as inflow.
getTransactionInflowNoInvestment(transaction) ==
    IF Get(transaction, "type") \in {Str("income"), Str("donation")}
    THEN Get(transaction, "amount").n ELSE 0

getTransactionInflow(transaction) ==
    IF Get(transaction, "type")
            \in {Str("income"), Str("donation"), Str("investment")}
    THEN Get(transaction, "amount").n ELSE 0

getTransactionOutflow(transaction) ==
    IF Get(transaction, "type") = Str("expense")
    THEN Get(transaction, "amount").n ELSE 0

\* transactions.reduce((balance, t) => balance + inflow - outflow, initialFund)
RECURSIVE calculateBalance(_, _)
calculateBalance(transactions, initialFund) ==
    IF transactions = <<>> THEN initialFund
    ELSE calculateBalance(Tail(transactions),
            initialFund + getTransactionInflow(Head(transactions))
                        - getTransactionOutflow(Head(transactions)))

\* transactions.filter(t => isWithinInterval(parseISO(t.date), ...))
getTransactionsForPeriod(transactions, startDate, endDate) ==
    SelectSeq(transactions,
              LAMBDA t : isWithinInterval(parseISO(Get(t, "date")),
                                          startDate, endDate))

\* .filter(t => t.type === type).reduce((sum, t) => sum + t.amount, 0)
RECURSIVE SumOfType(_, _)
SumOfType(transactions, type) ==
    IF transactions = <<>> THEN 0
    ELSE (IF Get(Head(transactions), "type") = Str(type)
          THEN Get(Head(transactions), "amount").n ELSE 0)
         + SumOfType(Tail(transactions), type)

\* .reduce((sum, t) => sum + getInvestmentAmount(t), 0)
RECURSIVE SumOfInvestments(_)
SumOfInvestments(transactions) ==
    IF transactions = <<>> THEN 0
    ELSE getInvestmentAmount(Head(transactions))
         + SumOfInvestments(Tail(transactions))

\* The net that leaves the investments out.
NetWithoutInvestments(transactions) ==
    SumOfType(transactions, "income") + SumOfType(transactions, "donation")
        - SumOfType(transactions, "expense")

\* net = income + donations + investments - expenses
NetOf(transactions) ==
    SumOfType(transactions, "income") + SumOfType(transactions, "donation")
        + SumOfInvestments(transactions) - SumOfType(transactions, "expense")

\* allTransactions.filter(t => parseISO(t.date) <= end)
TransactionsUpTo(allTransactions, end) ==
    SelectSeq(allTransactions,
              LAMBDA t : /\ isValid(parseISO(Get(t, "date")))
                         /\ NotAfter(parseISO(Get(t, "date")), end))

\* The MonthlyStats of the movements of one month.
StatsOf(monthTransactions, balanceAtEnd) ==
    [income      |-> SumOfType(monthTransactions, "income"),
     donations   |-> SumOfType(monthTransactions, "donation"),
     investments |-> SumOfInvestments(monthTransactions),
     expenses    |-> SumOfType(monthTransactions, "expense"),
     net         |-> NetOf(monthTransactions),
     balance     |-> balanceAtEnd]

\* The stats whose balance is taken over `transactions`.
getMonthlyStatsBalanceOfFirst(transactions, month, initialFund, allTransactions) ==
    StatsOf(getTransactionsForPeriod(transactions, startOfMonth(month),
                                     endOfMonth(month)),
            calculateBalance(TransactionsUpTo(transactions,
                                              endOfMonth(month)),
                             initialFund))

getMonthlyStats(transactions, month, initialFund, allTransactions) ==
    StatsOf(getTransactionsForPeriod(transactions, startOfMonth(month),
                                     endOfMonth(month)),
            calculateBalance(TransactionsUpTo(allTransactions,
                                              endOfMonth(month)),
                             initialFund))

\* The WeeklyBreakdown entry of the movements of one clipped week.
WeekOf(weekTransactions, actualStart, actualEnd, weekNumber) ==
    [weekStart   |-> format(actualStart),
     weekEnd     |-> format(actualEnd),
     weekNumber  |-> weekNumber,
     income      |-> SumOfType(weekTransactions, "income"),
     donations   |-> SumOfType(weekTransactions, "donation"),
     investments |-> SumOfInvestments(weekTransactions),
     expenses    |-> SumOfType(weekTransactions, "expense"),
     net         |-> NetOf(weekTransactions)]

\* The body of weeks.map (lines 104-141), once the week is clipped.
ClippedWeek(transactions, actualStart, actualEnd, weekNumber) ==
    WeekOf(getTransactionsForPeriod(transactions, actualStart, actualEnd),
           actualStart, actualEnd, weekNumber)

\* Lines 96-103: nothing if the window is empty, else one entry per week.
WeeksOf(transactions, start, effectiveEnd) ==
    IF isBefore(effectiveEnd, start) THEN <<>>
    ELSE [i \in DOMAIN eachWeekOfInterval(start, effectiveEnd) |->
            ClippedWeek(transactions,
                IF isBefore(eachWeekOfInterval(start, effectiveEnd)[i], start)
                THEN start ELSE eachWeekOfInterval(start, effectiveEnd)[i],
                IF isBefore(effectiveEnd,
                            endOfWeek(eachWeekOfInterval(start, effectiveEnd)[i]))
                THEN effectiveEnd
                ELSE endOfWeek(eachWeekOfInterval(start, effectiveEnd)[i]),
                i)]

\* The breakdown whose window ends today whatever the month is.
getWeeklyBreakdownUpToToday(transactions, month, clock) ==
    WeeksOf(transactions, startOfMonth(month), endOfDay(clock))

\* The breakdown whose window always ends with the month.
getWeeklyBreakdownOfWholeMonth(transactions, month, clock) ==
    WeeksOf(transactions, startOfMonth(month), endOfMonth(month))

\* `clock` is what new Date() returns (line 94).
getWeeklyBreakdown(transactions, month, clock) ==
    WeeksOf(transactions, startOfMonth(month),
            IF isSameMonth(month, endOfDay(clock))
            THEN endOfDay(clock) ELSE endOfMonth(month))

Abs(x) == IF x < 0 THEN -x ELSE x

RECURSIVE Gcd(_, _)
Gcd(a, b) == IF b = 0 THEN a ELSE Gcd(b, a % b)

\* The quotient num / den as a fraction in lowest terms (den > 0).
Ratio(num, den) ==
    [num |-> num \div Gcd(Abs(num), den), den |-> den \div Gcd(Abs(num), den)]

\* The comparison that divides by `previous` even when it is 0: JavaScript
\* gives NaN or an infinity, never an exception.
calculateComparisonDividing(current, previous) ==
    [current |-> current, previous |-> previous,
     difference |-> current - previous,
     percentageChange |->
         IF previous = 0 THEN (IF current = 0 THEN NaN ELSE Inf)
         ELSE Ratio((current - previous) * 100, Abs(previous)),
     trend |-> IF previous # 0 /\ Abs(current - previous) * 100 < Abs(previous)
               THEN "same"
               ELSE IF current - previous > 0 THEN "up" ELSE "down"]

\* The comparison that divides by `previous` and not by its absolute value.
calculateComparisonSignedDivisor(current, previous) ==
    IF previous = 0
    THEN [current |-> current, previous |-> previous,
          difference |-> current - previous,
          percentageChange |-> Null,
          trend |-> IF current > 0 THEN "up"
                    ELSE IF current < 0 THEN "down" ELSE "same"]
    ELSE [current |-> current, previous |-> previous,
          difference |-> current - previous,
          percentageChange |->
              Ratio((IF previous < 0 THEN previous - current
                     ELSE current - previous) * 100, Abs(previous)),
          trend |-> IF Abs(current - previous) * 100 < Abs(previous)
                    THEN "same"
                    ELSE IF (previous < 0) # (current - previous > 0)
                         THEN "up" ELSE "down"]

\* calculateComparison with the trend taken from the sign of `current` for
\* every `previous`.
calculateComparisonTrendOfCurrent(current, previous) ==
    [current |-> current, previous |-> previous,
     difference |-> current - previous,
     percentageChange |->
         IF previous = 0 THEN Null
         ELSE Ratio((current - previous) * 100, Abs(previous)),
     trend |-> IF current > 0 THEN "up"
               ELSE IF current < 0 THEN "down" ELSE "same"]

\* percentageChange is held as the exact fraction ((current - previous) * 100)
\* / |previous|, so |percentageChange| < 1 is |current - previous| * 100 <
\* |previous|.
calculateComparison(current, previous) ==
    IF previous = 0
    THEN [current |-> current, previous |-> previous,
          difference |-> current - previous,
          percentageChange |-> Null,
          trend |-> IF current > 0 THEN "up"
                    ELSE IF current < 0 THEN "down" ELSE "same"]
    ELSE [current |-> current, previous |-> previous,
          difference |-> current - previous,
          percentageChange |->
              Ratio((current - previous) * 100, Abs(previous)),
          trend |-> IF Abs(current - previous) * 100 < Abs(previous)
                    THEN "same"
                    ELSE IF current - previous > 0 THEN "up" ELSE "down"]

\* The three comparisons of two MonthlyStats.
ComparisonsOf(currentStats, previousStats) ==
    [income   |-> calculateComparison(currentStats.income,
                                      previousStats.income),
     expenses |-> calculateComparison(currentStats.expenses,
                                      previousStats.expenses),
     net      |-> calculateComparison(currentStats.net, previousStats.net)]

getMonthlyComparisons(transactions, currentMonth, initialFund) ==
    ComparisonsOf(
        getMonthlyStats(transactions, currentMonth, initialFund, transactions),
        getMonthlyStats(transactions, subMonths(currentMonth), initialFund,
                        transactions))

-----------------------------------------------------------------------------
(* utils/storage.ts: localStorage holds JSON text; an item is absent or the *)
(* stringified value, which JSON.parse returns as it was written.          *)

NoItem == [has |-> FALSE, json |-> <<>>]

\* localStorage.getItem + JSON.parse, with the default for an absent item.
getItem(item, defaultValue) == IF item.has THEN item.json ELSE defaultValue

\* JSON.stringify + localStorage.setItem, for an array of objects.
setItem(value) == [has |-> TRUE, json |-> StringifyArray(value)]

getTransactions(ls) == getItem(ls.transactions, <<>>)
getCategories(ls) == getItem(ls.categories, <<>>)
getPeriods(ls) == getItem(ls.periods, <<>>)
getSettings(ls) == getItem(ls.settings, DEFAULT_SETTINGS)

saveTransactions(ls, transactions) ==
    [ls EXCEPT !.transactions = setItem(transactions)]
saveCategories(ls, categories) ==
    [ls EXCEPT !.categories = setItem(categories)]
savePeriods(ls, periods) == [ls EXCEPT !.periods = setItem(periods)]
saveSettings(ls, settings) ==
    [ls EXCEPT !.settings = [has |-> TRUE, json |-> StringifyObject(settings)]]

\* array.findIndex(x => x.id === id): the first match, 0 if none.
FindIndex(xs, id) ==
    IF \E i \in DOMAIN xs : Get(xs[i], "id") = id
    THEN CHOOSE i \in DOMAIN xs :
            /\ Get(xs[i], "id") = id
            /\ \A j \in 1 .. (i - 1) : Get(xs[j], "id") # id
    ELSE 0

storageAddTransaction(ls, transaction) ==
    saveTransactions(ls, Append(getTransactions(ls), transaction))

storageUpdateTransaction(ls, id, updates, clock) ==
    LET transactions == getTransactions(ls)
        index == FindIndex(transactions, id)
    IN  IF index = 0 THEN ls
        ELSE saveTransactions(ls,
               [transactions EXCEPT ![index] =
                   Put(Spread(transactions[index], updates), "updatedAt",
                       Str(toISOString(clock)))])

storageDeleteTransaction(ls, id) ==
    saveTransactions(ls,
        SelectSeq(getTransactions(ls), LAMBDA t : Get(t, "id") # id))

storageAddCategory(ls, category) ==
    saveCategories(ls, Append(getCategories(ls), category))

storageUpdateCategory(ls, id, updates) ==
    LET categories == getCategories(ls)
        index == FindIndex(categories, id)
    IN  IF index = 0 THEN ls
        ELSE saveCategories(ls,
               [categories EXCEPT ![index] = Spread(categories[index], updates)])

storageDeleteCategory(ls, id) ==
    saveCategories(ls,
        SelectSeq(getCategories(ls), LAMBDA c : Get(c, "id") # id))

\* `${Date.now()}-${random}` and Firestore's auto-id: the k-th fresh id.
generateId(k) == "id-" \o ToString(k)

-----------------------------------------------------------------------------
(* data/localTreasuryRepository.ts *)

persistSnapshot(ls, snap) ==
    saveSettings(
        savePeriods(
            saveCategories(saveTransactions(ls, snap.transactions),
                           snap.categories),
            snap.periods),
        snap.settings)

\* The store after getSnapshot computed `result` (lines 25-27).
LocalStoreAfterGetSnapshot(ls, result) ==
    IF result.changed THEN persistSnapshot(ls, result.snapshot) ELSE ls

LocalReadSnapshot(ls) ==
    [transactions |-> getTransactions(ls),
     categories   |-> getCategories(ls),
     periods      |-> getPeriods(ls),
     settings     |-> getSettings(ls)]

\* Mutant of LocalStoreAfterAdd: the placeholder category is saved before
\* the input is validated.
LocalStoreAfterAddSavesFirst(ls, result, categories, id, clock) ==
    IF result = Null
    THEN saveCategories(ls,
            ensureUncategorizedCategory(categories, "income").categories)
    ELSE storageAddTransaction(
            IF Len(result.categories) # Len(categories)
            THEN saveCategories(ls, result.categories) ELSE ls,
            Put(Put(Put(result.transaction, "id", Str(id)),
                    "createdAt", Str(toISOString(clock))),
                "updatedAt", Str(toISOString(clock))))

\* The store after addTransaction (lines 40-54); `result` is what
\* normalizeTransactionInput returned for `data` and `categories`.
LocalStoreAfterAdd(ls, result, categories, id, clock) ==
    IF result = Null THEN ls
    ELSE storageAddTransaction(
            IF Len(result.categories) # Len(categories)
            THEN saveCategories(ls, result.categories) ELSE ls,
            Put(Put(Put(result.transaction, "id", Str(id)),
                    "createdAt", Str(toISOString(clock))),
                "updatedAt", Str(toISOString(clock))))

-----------------------------------------------------------------------------
(* data/firebase/treasuryRepository.ts.  A collection is a set of documents *)
(* [id, data]; getDocs returns them in document-id order.                  *)

\* Ids generated in one run.
MaxIds == 2

DocIdOrder ==
    << "cat-uncategorized-donation", "cat-uncategorized-expense",
       "cat-uncategorized-income", "cat-uncategorized-investment" >>
    \o [k \in 1 .. MaxIds |-> generateId(k)]

DocRank(id) == CHOOSE i \in DOMAIN DocIdOrder : DocIdOrder[i] = id

RECURSIVE SortDocs(_)
SortDocs(docs) ==
    IF docs = {} THEN <<>>
    ELSE LET first == CHOOSE d \in docs :
                        \A e \in docs : DocRank(d.id) <= DocRank(e.id)
         IN  <<first>> \o SortDocs(docs \ {first})

\* Object.entries(data).reduce(...): undefined properties are left out.
sanitizeFirestoreData(data) == SelectSeq(data, LAMBDA kv : kv[2].t # "undef")

withDocId(data, id) == Put(data, "id", Str(id))

fetchCollection(docs) ==
    LET sorted == SortDocs(docs)
    IN  [i \in DOMAIN sorted |-> withDocId(sorted[i].data, sorted[i].id)]

fetchSettings(doc) == IF doc.exists THEN doc.data ELSE DEFAULT_SETTINGS

DocExists(docs, id) == \E d \in docs : d.id = id

\* setDoc(ref, data)
setDoc(docs, id, data) ==
    {d \in docs : d.id # id} \cup {[id |-> id, data |-> data]}

\* setDoc(ref, data, {merge: true})
setDocMerge(docs, id, data) ==
    IF DocExists(docs, id)
    THEN {IF d.id = id THEN [id |-> id, data |-> Spread(d.data, data)] ELSE d :
            d \in docs}
    ELSE docs \cup {[id |-> id, data |-> data]}

\* deleteDoc(ref)
deleteDoc(docs, id) == {d \in docs : d.id # id}

\* setDoc with merge for each object of `xs`, under the object's id.
RECURSIVE MergeAll(_, _)
MergeAll(docs, xs) ==
    IF xs = <<>> THEN docs
    ELSE MergeAll(setDocMerge(docs, Get(Head(xs), "id").s, Head(xs)), Tail(xs))

FirebaseReadSnapshot(fs) ==
    [transactions |-> fetchCollection(fs.transactions),
     categories   |-> fetchCollection(fs.categories),
     periods      |-> fetchCollection(fs.periods),
     settings     |-> fetchSettings(fs.settings)]

\* The store after getSnapshot computed `result` (lines 116-141).
FirebaseStoreAfterGetSnapshot(fs, result) ==
    IF ~result.changed THEN fs
    ELSE [transactions |->
              MergeAll(fs.transactions,
                       [i \in DOMAIN result.snapshot.transactions |->
                          sanitizeFirestoreData(result.snapshot.transactions[i])]),
          categories |-> MergeAll(fs.categories, result.snapshot.categories),
          periods |-> MergeAll(fs.periods, result.snapshot.periods),
          settings |->
              [exists |-> TRUE,
               data |-> IF fs.settings.exists
                        THEN Spread(fs.settings.data, result.snapshot.settings)
                        ELSE result.snapshot.settings]]

\* The store after addTransaction (lines 181-210).
FirebaseStoreAfterAdd(fs, result, categories, id, clock) ==
    IF result = Null THEN fs
    ELSE LET existingCategoryIds ==
                 {Get(categories[i], "id") : i \in DOMAIN categories}
             newCategories ==
                 SelectSeq(result.categories,
                           LAMBDA c : Get(c, "id") \notin existingCategoryIds)
             payload ==
                 Put(Put(Put(result.transaction,
                             "createdAt", Str(toISOString(clock))),
                         "updatedAt", Str(toISOString(clock))),
                     "id", Str(id))
         IN  [fs EXCEPT
                !.categories = MergeAll(fs.categories, newCategories),
                !.transactions =
                    setDoc(fs.transactions, id, sanitizeFirestoreData(payload))]

-----------------------------------------------------------------------------
(* Raw records a store can hold: well-formed ones and the malformed,       *)
(* duplicated and orphaned ones the normalizer exists for.                 *)

StampA == Str("2023-12-01T09:00:00.000Z")

catIncome ==
    << <<"id", Str("cat-income-1")>>, <<"name", Str("Ventas")>>,
       <<"type", Str("income")>>, <<"isDefault", Bool(TRUE)>> >>
catExpense ==
    << <<"id", Str("cat-expense-1")>>, <<"name", Str(" Actividad ")>>,
       <<"type", Str("expense")>> >>
catMistyped ==
    << <<"id", Str("cat-uncategorized-income")>>,
       <<"name", Str("Sin categoría")>>, <<"type", Str("expense")>>,
       <<"isDefault", Bool(TRUE)>> >>
catDuplicate ==
    << <<"id", Str("cat-income-1")>>, <<"name", Str("  ")>>,
       <<"type", Str("expense")>>, <<"isDefault", Null>> >>
catBogus ==
    << <<"id", Str("cat-x")>>, <<"name", Str("X")>>, <<"type", Str("bogus")>> >>

RawCategories == {catIncome, catExpense, catMistyped, catDuplicate, catBogus}

txIncome ==
    << <<"id", Str("t1")>>, <<"type", Str("income")>>, <<"amount", Num(1000)>>,
       <<"date", Str("2024-01-05")>>, <<"categoryId", Str("cat-income-1")>>,
       <<"description", Str("venta")>>, <<"createdAt", StampA>>,
       <<"updatedAt", StampA>> >>
txExpense ==
    << <<"id", Str("t2")>>, <<"type", Str("expense")>>, <<"amount", Str("5")>>,
       <<"date", Str("2024-01-20T10:30:00")>>,
       <<"categoryId", Str("cat-expense-1")>>,
       <<"description", Str(" pastel ")>>, <<"tags", Arr(<<"a", "">>)>>,
       <<"paymentMethod", Str(" ")>>, <<"receipt", Str(" r ")>> >>
txOrphan ==
    << <<"id", Str("t3")>>, <<"type", Str("income")>>, <<"amount", Num(200)>>,
       <<"date", Str("2024-02-10")>>, <<"categoryId", Str("cat-gone")>>,
       <<"description", Str("")>>, <<"createdAt", StampA>>,
       <<"updatedAt", StampA>> >>
txMismatch ==
    << <<"id", Str("t4")>>, <<"type", Str("income")>>, <<"amount", Num(50)>>,
       <<"date", Str("2023-12-31")>>, <<"categoryId", Str("cat-expense-1")>>,
       <<"description", Str("")>>, <<"createdAt", StampA>>,
       <<"updatedAt", StampA>> >>
txNoCategory ==
    << <<"id", Str("t5")>>, <<"type", Str("donation")>>, <<"amount", Num(10)>>,
       <<"date", Str("2024-01-31")>>, <<"createdAt", StampA>> >>
txZero ==
    << <<"id", Str("t6")>>, <<"type", Str("income")>>, <<"amount", Num(0)>>,
       <<"date", Str("2024-01-05")>>, <<"categoryId", Str("cat-income-1")>>,
       <<"description", Str("")>>, <<"createdAt", StampA>>,
       <<"updatedAt", StampA>> >>
txNegative ==
    << <<"id", Str("t7")>>, <<"type", Str("expense")>>, <<"amount", Num(-5)>>,
       <<"date", Str("2024-01-05")>>, <<"categoryId", Str("cat-expense-1")>>,
       <<"description", Str("")>>, <<"createdAt", StampA>>,
       <<"updatedAt", StampA>> >>
txBadDate ==
    << <<"id", Str("t8")>>, <<"type", Str("expense")>>, <<"amount", Num(7)>>,
       <<"date", Str("garbage")>>, <<"categoryId", Str("cat-expense-1")>>,
       <<"description", Str("")>>, <<"createdAt", StampA>>,
       <<"updatedAt", StampA>> >>
txBadType ==
    << <<"type", Str("bogus")>>, <<"amount", Str("abc")>>,
       <<"date", Str("2024-01-05")>>, <<"categoryId", Str("cat-gone")>> >>

RawTransactions ==
    {txIncome, txExpense, txOrphan, txMismatch, txNoCategory,
     txZero, txNegative, txBadDate, txBadType}

perA ==
    << <<"id", Str("p1")>>, <<"name", Str("2024")>>,
       <<"startDate", Str("2024-01-01")>>, <<"endDate", Str("2024-02-29")>>,
       <<"initialFund", Num(500)>>, <<"createdAt", StampA>> >>
perB ==
    << <<"id", Str("p2")>>, <<"name", Str(" ")>>,
       <<"startDate", Str("2024-01-05T10:30:00")>>,
       <<"endDate", Str("garbage")>>, <<"initialFund", Str("5")>> >>
perDuplicate ==
    << <<"id", Str("p1")>>, <<"name", Str("dup")>>,
       <<"startDate", Str("2023-12-01")>>, <<"endDate", Str("2023-12-31")>>,
       <<"initialFund", Num(-100)>>, <<"createdAt", StampA>> >>
perNoId ==
    << <<"name", Str("x")>>, <<"startDate", Str("2024-01-01")>>,
       <<"endDate", Str("2024-01-31")>>, <<"initialFund", Num(0)>> >>

RawPeriods == {perA, perB, perDuplicate, perNoId}

RawSettings ==
    { << >>,
      << <<"currentPeriodId", Str("p1")>>,
         <<"hasCompletedOnboarding", Bool(TRUE)>>, <<"theme", Str("dark")>> >>,
      << <<"currentPeriodId", Str("p9")>>,
         <<"hasCompletedOnboarding", Bool(FALSE)>>, <<"theme", Str("blue")>> >>,
      << <<"theme", Str("light")>>, <<"currentPeriodId", Str("p2")>>,
         <<"hasCompletedOnboarding", Num(1)>> >>,
      << <<"currentPeriodId", Str("")>>,
         <<"hasCompletedOnboarding", Bool(TRUE)>>, <<"theme", Str("dark")>>,
         <<"legacy", Str("x")>> >>,
      << <<"theme", Str("dark")>>, <<"hasCompletedOnboarding", Bool(TRUE)>>,
         <<"currentPeriodId", Str("p1")>> >> }

\* Records of one raw snapshot (transactions and categories together, or
\* periods).
MaxRecords == 2

SeqsUpTo(S, k) == UNION {[1 .. j -> S] : j \in 0 .. k}

RawSnapshots ==
    UNION {
        { [transactions |-> ts, categories |-> cs, periods |-> <<>>,
           settings |-> DEFAULT_SETTINGS] :
             ts \in [1 .. j -> RawTransactions],
             cs \in SeqsUpTo(RawCategories, MaxRecords - j) } :
        j \in 0 .. MaxRecords }
    \cup
    { [transactions |-> <<>>, categories |-> <<>>, periods |-> ps,
       settings |-> st] :
         ps \in SeqsUpTo(RawPeriods, MaxRecords), st \in RawSettings }

\* Readings of the wall clock.
ClockTimes ==
    { [day |-> DayOf(2024, 1, 17), ms |-> 8 * 60 * 60 * 1000],
      [day |-> DayOf(2024, 2, 10), ms |-> 8 * 60 * 60 * 1000] }

Earlier(c1, c2) == c1.day < c2.day \/ (c1.day = c2.day /\ c1.ms < c2.ms)

\* Time passes.
Tick ==
    /\ \E c \in ClockTimes : Earlier(now, c) /\ now' = c
    /\ UNCHANGED <<normVars, inputVars, calcVars, repoVars, coreVars, reportVars, asyncVars>>

\* The variables a specification does not use stay at these values.
IdleNorm == snapshot = None /\ normalized = None /\ renormalized = None
IdleInput == input = None /\ inputCategories = None /\ inputResult = None
IdleCalc == ledger = None /\ fund = None /\ balance = None
IdleRepo ==
    /\ backend = None /\ localStorage = None /\ firestore = None
    /\ issued = None /\ calls = None /\ response = None
IdleCore == invocation = None /\ outputs = None
IdleReport ==
    /\ selectedMonth = None /\ stats = None /\ weeklyBreakdown = None
    /\ pending = None /\ hook = None

-----------------------------------------------------------------------------
(* The normalizer applied to a raw snapshot, then to its own output *)

InitNorm ==
    /\ now = [day |-> DayOf(2024, 1, 17), ms |-> 8 * 60 * 60 * 1000]
    /\ snapshot \in RawSnapshots
    /\ normalized = None
    /\ renormalized = None
    /\ IdleInput /\ IdleCalc /\ IdleRepo /\ IdleCore
    /\ IdleReport

Normalize ==
    /\ normalized = None
    /\ normalized' = normalizeTreasurySnapshot(snapshot, now)
    /\ UNCHANGED <<now, snapshot, renormalized, inputVars, calcVars, repoVars,
                   coreVars, reportVars, asyncVars>>

Renormalize ==
    /\ normalized # None
    /\ renormalized = None
    /\ renormalized' = normalizeTreasurySnapshot(normalized.snapshot, now)
    /\ UNCHANGED <<now, snapshot, normalized, inputVars, calcVars, repoVars,
                   coreVars, reportVars, asyncVars>>

NextNorm == Normalize \/ Renormalize \/ Tick

SpecNorm == InitNorm /\ [][NextNorm]_vars

-----------------------------------------------------------------------------
(* Properties of the normalizer *)

\* C1: a second pass over the snapshot returned by normalizeTreasurySnapshot
\* reports changed = false and returns the same snapshot.
C1_NormalizerIdempotent ==
    renormalized # None =>
        /\ renormalized.changed = FALSE
        /\ renormalized.snapshot = normalized.snapshot

\* A first pass that dropped a record, redirected a movement and reported
\* a change, followed by the second pass.
C1_Witness ==
    /\ renormalized # None
    /\ normalized.changed
    /\ Len(normalized.snapshot.transactions) < Len(snapshot.transactions)
    /\ Len(normalized.snapshot.categories) > Len(snapshot.categories)

\* Every transaction of `snap` resolves to a category of its own type.
ReferentialIntegrity(snap) ==
    \A i \in DOMAIN snap.transactions :
        \E j \in DOMAIN snap.categories :
            /\ Get(snap.categories[j], "id")
                    = Get(snap.transactions[i], "categoryId")
            /\ Get(snap.categories[j], "type")
                    = Get(snap.transactions[i], "type")

\* C2: in the output of normalizeTreasurySnapshot every transaction's
\* categoryId names an output category of the transaction's type, also when
\* the input holds a 'cat-uncategorized-<type>' entry of another type.
C2_ReferentialIntegrity ==
    normalized # None => ReferentialIntegrity(normalized.snapshot)

\* The movements the normalizer keeps, in input order.
KeptTransactions(raw) ==
    SelectSeq(raw.transactions, LAMBDA t : ~IsDroppedTransaction(t))

\* The movement's categoryId names no normalized category of its type.
NeedsRedirect(transaction, raw) ==
    LET cats == normalizeCategories(raw.categories)
    IN  ~\E j \in DOMAIN cats :
            /\ Get(cats[j], "id") = Get(transaction, "categoryId")
            /\ Get(cats[j], "type") = Get(transaction, "type")

\* The movement is filed under a placeholder category of its own type.
FiledUnderPlaceholder(transaction, snap) ==
    \E j \in DOMAIN snap.categories :
        /\ Get(snap.categories[j], "id") = Get(transaction, "categoryId")
        /\ Get(snap.categories[j], "type") = Get(transaction, "type")
        /\ Get(snap.categories[j], "name") = Str("Sin categoría")

\* C3: an otherwise valid transaction whose categoryId names no category of
\* its type is not dropped, and in the output it points to a category of
\* its own type named 'Sin categoría'.
C3_CategoryRedirection ==
    normalized # None =>
        LET kept == KeptTransactions(snapshot)
            out == normalized.snapshot
        IN  /\ Len(out.transactions) = Len(kept)
            /\ \A k \in DOMAIN kept :
                /\ Get(out.transactions[k], "id") = Get(kept[k], "id")
                /\ NeedsRedirect(kept[k], snapshot) =>
                        FiledUnderPlaceholder(out.transactions[k], out)

\* C8: settings.currentPeriodId of a normalized snapshot is null only when
\* there is no period and otherwise the id of a normalized period; an input
\* value naming a normalized period is kept, any other is replaced by the
\* first normalized period's id.
C8_CurrentPeriodReference ==
    normalized # None =>
        LET given == Get(snapshot.settings, "currentPeriodId")
            periods == normalized.snapshot.periods
            current == Get(normalized.snapshot.settings, "currentPeriodId")
            ids == {Get(periods[i], "id") : i \in DOMAIN periods}
        IN  /\ (current = Null /\ periods = <<>>) \/ current \in ids
            /\ given \in ids => current = given
            /\ (given \notin ids /\ periods # <<>>)
                    => current = Get(periods[1], "id")

\* A dangling currentPeriodId was replaced by the first period's id.
C8_Witness ==
    /\ normalized # None
    /\ Get(snapshot.settings, "currentPeriodId") = Str("p9")
    /\ Len(normalized.snapshot.periods) = 2
    /\ Get(normalized.snapshot.settings, "currentPeriodId")
            = Get(normalized.snapshot.periods[1], "id")

\* A raw transaction with an id, a recognized type, an amount that coerces
\* to a finite number above 0 and a date that parses.
IsWellFormed(transaction) ==
    /\ Truthy(Get(transaction, "id"))
    /\ Get(transaction, "type")
          \in {Str("income"), Str("donation"), Str("investment"),
               Str("expense")}
    /\ ToNumber(Get(transaction, "amount")).t = "num"
    /\ ToNumber(Get(transaction, "amount")).n > 0
    /\ isValid(parseISO(Get(transaction, "date")))

\* The ids of a list of transactions, in order.
IdsOf(transactions) ==
    [i \in DOMAIN transactions |-> Get(transactions[i], "id")]

\* C18: a transaction of the raw snapshot is in the output of
\* normalizeTreasurySnapshot if and only if it has an id, a recognized type,
\* an amount that coerces to a finite number above 0 and a parseable date;
\* the kept transactions keep their input order, and each has a numeric
\* amount above 0 and a date of the form yyyy-MM-dd.
C18_TransactionFilter ==
    normalized # None =>
        /\ IdsOf(normalized.snapshot.transactions)
              = IdsOf(SelectSeq(snapshot.transactions, IsWellFormed))
        /\ \A i \in DOMAIN normalized.snapshot.transactions :
              /\ Get(normalized.snapshot.transactions[i], "amount").t = "num"
              /\ Get(normalized.snapshot.transactions[i], "amount").n > 0
              /\ \E d \in Days :
                    Get(normalized.snapshot.transactions[i], "date")
                        = Str(format([day |-> d, ms |-> 0]))

\* Of two raw transactions one was dropped, and the other was kept with its
\* amount coerced from a string and the time cut off its date.
C18_Witness ==
    /\ normalized # None
    /\ Len(snapshot.transactions) = 2
    /\ Len(normalized.snapshot.transactions) = 1
    /\ \E i \in DOMAIN snapshot.transactions :
          /\ Get(snapshot.transactions[i], "amount") = Str("5")
          /\ Get(snapshot.transactions[i], "date")
                = Str("2024-01-20T10:30:00")
    /\ Get(normalized.snapshot.transactions[1], "amount") = Num(5)
    /\ Get(normalized.snapshot.transactions[1], "date") = Str("2024-01-20")

\* A raw category with an id, a name and a recognized type.
IsUsableCategory(category) ==
    /\ Truthy(Get(category, "id"))
    /\ Truthy(Get(category, "name"))
    /\ Get(category, "type")
          \in {Str("income"), Str("donation"), Str("investment"),
               Str("expense")}

\* The positions of the raw categories that are the first usable one of
\* their id.
FirstOfTheirId(categories) ==
    {i \in DOMAIN categories :
        /\ IsUsableCategory(categories[i])
        /\ \A j \in 1 .. (i - 1) :
              IsUsableCategory(categories[j])
                  => Get(categories[j], "id") # Get(categories[i], "id")}

\* The placeholder ids, one per transaction type.
PlaceholderIds ==
    {Str("cat-uncategorized-" \o type) :
        type \in {"income", "donation", "investment", "expense"}}

\* C19: in every snapshot returned by normalizeTreasurySnapshot the category
\* ids are pairwise distinct; of the usable input categories with the same
\* id only the first is kept, and what follows them is at most one
\* synthesized 'cat-uncategorized-<type>' category per transaction type,
\* however many transactions are redirected to it.
C19_UniqueCategoryIds ==
    normalized # None =>
        /\ \A i, j \in DOMAIN normalized.snapshot.categories :
              i # j => Get(normalized.snapshot.categories[i], "id")
                         # Get(normalized.snapshot.categories[j], "id")
        /\ Len(normalized.snapshot.categories)
              >= Cardinality(FirstOfTheirId(snapshot.categories))
        /\ \A i \in FirstOfTheirId(snapshot.categories) :
              \E k \in 1 .. Cardinality(FirstOfTheirId(snapshot.categories)) :
                  /\ Get(normalized.snapshot.categories[k], "id")
                        = Get(snapshot.categories[i], "id")
                  /\ Get(normalized.snapshot.categories[k], "type")
                        = Get(snapshot.categories[i], "type")
        /\ \A k \in DOMAIN normalized.snapshot.categories :
              k > Cardinality(FirstOfTheirId(snapshot.categories))
                  => /\ Get(normalized.snapshot.categories[k], "id")
                           \in PlaceholderIds
                     /\ Get(normalized.snapshot.categories[k], "id").s
                           = "cat-uncategorized-"
                               \o Get(normalized.snapshot.categories[k],
                                      "type").s

\* Two transactions of one type were redirected and share one synthesized
\* placeholder.
C19_Witness ==
    /\ normalized # None
    /\ snapshot.categories = <<>>
    /\ Len(normalized.snapshot.transactions) = 2
    /\ Get(normalized.snapshot.transactions[1], "categoryId")
          = Str("cat-uncategorized-income")
    /\ Get(normalized.snapshot.transactions[2], "categoryId")
          = Str("cat-uncategorized-income")
    /\ Len(normalized.snapshot.categories) = 1

\* The properties of a record that hold a value, whatever their order.
PropertiesOf(record) ==
    {record[i] : i \in {j \in DOMAIN record : record[j][2] # Undef}}

\* The names of those properties, in the order of the record.
PropertyOrder(record) ==
    [i \in DOMAIN SelectSeq(record, LAMBDA q : q[2] # Undef) |->
        SelectSeq(record, LAMBDA q : q[2] # Undef)[i][1]]

\* Two lists of records are deeply equal.
DeepEqual(xs, ys) ==
    /\ Len(xs) = Len(ys)
    /\ \A i \in DOMAIN xs : PropertiesOf(xs[i]) = PropertiesOf(ys[i])

\* Two deeply equal lists also list the properties of each record in the
\* same order.
SameOrder(xs, ys) ==
    /\ Len(xs) = Len(ys)
    /\ \A i \in DOMAIN xs : PropertyOrder(xs[i]) = PropertyOrder(ys[i])

\* The returned snapshot equals the raw one.
EqualsInput ==
    /\ DeepEqual(snapshot.transactions, normalized.snapshot.transactions)
    /\ DeepEqual(snapshot.categories, normalized.snapshot.categories)
    /\ DeepEqual(snapshot.periods, normalized.snapshot.periods)
    /\ DeepEqual(<<snapshot.settings>>, <<normalized.snapshot.settings>>)

\* The returned snapshot lists every property in the order of the raw one.
KeepsPropertyOrder ==
    /\ SameOrder(snapshot.transactions, normalized.snapshot.transactions)
    /\ SameOrder(snapshot.categories, normalized.snapshot.categories)
    /\ SameOrder(snapshot.periods, normalized.snapshot.periods)
    /\ SameOrder(<<snapshot.settings>>, <<normalized.snapshot.settings>>)

\* C20 as stated: changed is true if and only if one of the output
\* transactions, categories, periods or settings differs from the input
\* collection, and changed = false implies that the returned snapshot
\* equals the input snapshot.
C20_ChangedIffDiffers ==
    normalized # None => (normalized.changed <=> ~EqualsInput)

\* C20, amended: changed is true if and only if one of the output
\* collections differs from the input collection in a value or in the order
\* of the properties of a record; changed = false implies that the returned
\* snapshot equals the input snapshot.
C20_ChangedIffDiffersOrReordered ==
    normalized # None =>
        /\ normalized.changed <=> ~(EqualsInput /\ KeepsPropertyOrder)
        /\ ~normalized.changed => EqualsInput

\* A snapshot with a period and settings that need no repair came back
\* unchanged.
C20_Witness ==
    /\ normalized # None
    /\ ~normalized.changed
    /\ snapshot.periods # <<>>
    /\ Get(snapshot.settings, "theme") = Str("dark")

\* C16: in every snapshot returned by normalizeTreasurySnapshot, each
\* period's initialFund is a finite number that is not negative.
C16_InitialFundNonNegative ==
    normalized # None =>
        \A i \in DOMAIN normalized.snapshot.periods :
            /\ NumberIsFinite(Get(normalized.snapshot.periods[i],
                                  "initialFund"))
            /\ Get(normalized.snapshot.periods[i], "initialFund").n >= 0

\* C17: in every snapshot returned by normalizeTreasurySnapshot whose period
\* list is not empty, exactly one period has the id that
\* settings.currentPeriodId holds, also when the raw input has two periods
\* with the same id.
C17_ExactlyOneCurrentPeriod ==
    (normalized # None /\ normalized.snapshot.periods # <<>>) =>
        Cardinality(
            {i \in DOMAIN normalized.snapshot.periods :
                Get(normalized.snapshot.periods[i], "id")
                    = Get(normalized.snapshot.settings, "currentPeriodId")})
          = 1

-----------------------------------------------------------------------------
(* normalizeTransactionInput applied to a creation input *)

\* {...object} without the given keys.
Omit(o, keys) == SelectSeq(o, LAMBDA kv : kv[1] \notin keys)

\* Creation inputs: the raw movements without id and timestamps, amounts of
\* every kind, and a missing input.
TransactionInputs ==
    {Obj(Omit(t, {"id", "createdAt", "updatedAt"})) : t \in RawTransactions}
    \cup {Obj(Put(Omit(txIncome, {"id", "createdAt", "updatedAt"}),
                  "amount", v)) :
            v \in {Str("abc"), Str(" 7 "), Str(""), Inf, NaN, Null, Undef,
                   Bool(TRUE)}}
    \cup {Null, Undef}

InitInput ==
    /\ now = [day |-> DayOf(2024, 1, 17), ms |-> 8 * 60 * 60 * 1000]
    /\ input \in TransactionInputs
    /\ inputCategories \in SeqsUpTo(RawCategories, MaxRecords)
    /\ inputResult = None
    /\ IdleNorm /\ IdleCalc /\ IdleRepo /\ IdleCore
    /\ IdleReport

NormalizeInput ==
    /\ inputResult = None
    /\ inputResult' = normalizeTransactionInput(input, inputCategories)
    /\ UNCHANGED <<now, input, inputCategories, normVars, calcVars, repoVars,
                   coreVars, reportVars, asyncVars>>

NextInput == NormalizeInput

SpecInput == InitInput /\ [][NextInput]_vars

\* C7: normalizeTransactionInput returns null exactly when the input is
\* missing, its type is not a transaction type, its amount coerced to a
\* number is not finite or is <= 0, or its date does not parse; amounts 0
\* and -5 are rejected and the categoryId never causes a rejection.
C7_InputRejection ==
    inputResult # None =>
        LET missing == input \in {Null, Undef}
            type == Get(input.a, "type")
            amount == ToNumber(Get(input.a, "amount"))
            date == parseISO(Get(input.a, "date"))
            invalid ==
                \/ missing
                \/ type \notin {Str("income"), Str("donation"),
                                Str("investment"), Str("expense")}
                \/ amount.t # "num" \/ amount.n <= 0
                \/ date = InvalidDate
        IN  /\ (inputResult = Null) <=> invalid
            /\ (~missing /\ Get(input.a, "amount") \in {Num(0), Num(-5)})
                    => inputResult = Null
            /\ ~invalid =>
                    /\ inputResult.transaction # <<>>
                    /\ Get(inputResult.transaction, "amount").n > 0

\* Amount 0 was rejected, and an input with an unknown categoryId was not.
C7_Witness ==
    /\ inputResult # None
    /\ \/ /\ inputResult = Null
          /\ input.t = "obj" /\ Get(input.a, "amount") = Num(0)
          /\ Get(input.a, "type") = Str("income")
       \/ /\ inputResult # Null
          /\ Get(input.a, "categoryId") = Str("cat-gone")
          /\ inputCategories # <<>>

-----------------------------------------------------------------------------
(* calculateBalance applied to a transaction list *)

Movement(id, type, amount, date, categoryId) ==
    << <<"id", Str(id)>>, <<"type", Str(type)>>, <<"amount", Num(amount)>>,
       <<"date", Str(date)>>, <<"categoryId", Str(categoryId)>>,
       <<"description", Str("")>>, <<"createdAt", StampA>>,
       <<"updatedAt", StampA>> >>

LedgerTransactions ==
    { Movement("t1", "income", 1000, "2024-01-05", "cat-income-1"),
      Movement("t2", "expense", 300, "2024-01-20", "cat-expense-1"),
      Movement("t3", "donation", 50, "2023-12-31", "cat-donation-1"),
      Movement("t4", "investment", 200, "2024-02-01", "cat-investment-1"),
      Movement("t5", "expense", 1000, "2024-01-31", "cat-expense-1"),
      Movement("t6", "income", 7, "2024-01-01", "cat-income-1") }

InitialFunds == {0, 500, -100}

\* Transactions of one ledger.
MaxLedger == 3

InitCalc ==
    /\ now = [day |-> DayOf(2024, 1, 17), ms |-> 8 * 60 * 60 * 1000]
    /\ ledger \in SeqsUpTo(LedgerTransactions, MaxLedger)
    /\ fund \in {Num(f) : f \in InitialFunds}
    /\ balance = None
    /\ IdleNorm /\ IdleInput /\ IdleRepo /\ IdleCore
    /\ IdleReport

CalculateBalance ==
    /\ balance = None
    /\ balance' = Num(calculateBalance(ledger, fund.n))
    /\ UNCHANGED <<now, ledger, fund, normVars, inputVars, repoVars,
                   coreVars, reportVars, asyncVars>>

NextCalc == CalculateBalance

SpecCalc == InitCalc /\ [][NextCalc]_vars

\* Sum of the amounts of the transactions whose type is in `types`.
RECURSIVE SumOfTypes(_, _)
SumOfTypes(transactions, types) ==
    IF transactions = <<>> THEN 0
    ELSE LET last == transactions[Len(transactions)]
         IN  SumOfTypes(SubSeq(transactions, 1, Len(transactions) - 1), types)
             + (IF Get(last, "type").s \in types
                THEN Get(last, "amount").n ELSE 0)

\* C10: calculateBalance(T, F) is F plus the amounts of income, donation and
\* investment transactions minus the amounts of expense transactions, and
\* is the same for every permutation of T.
C10_BalanceAdditivity ==
    balance # None =>
        /\ balance.n = fund.n
                + SumOfTypes(ledger, {"income", "donation", "investment"})
                - SumOfTypes(ledger, {"expense"})
        /\ \A p \in Permutations(DOMAIN ledger) :
              calculateBalance([i \in DOMAIN ledger |-> ledger[p[i]]], fund.n)
                  = balance.n

\* A ledger with an investment, an expense and another inflow was balanced.
C10_Witness ==
    /\ balance # None
    /\ Len(ledger) = 3
    /\ \E i, j, k \in DOMAIN ledger :
          /\ Get(ledger[i], "type") = Str("investment")
          /\ Get(ledger[j], "type") = Str("expense")
          /\ Get(ledger[k], "type") = Str("income")

-----------------------------------------------------------------------------
(* The core functions, each invoked more than once with the same arguments *)
(* while time passes                                                       *)

\* The `month` arguments: a Date inside each month of the calendar.
MonthArguments ==
    { [day |-> DayOf(2023, 12, 15), ms |-> 0],
      [day |-> DayOf(2024, 1, 31), ms |-> 10 * 60 * 60 * 1000],
      [day |-> DayOf(2024, 2, 1), ms |-> 0] }

Amounts == {-100, -3, 0, 1, 5, 100, 101, 150, 200, 250}

Invocation(fn, args) == [fn |-> fn, args |-> args]

\* The `transactions` arguments.
CoreLedgers == SeqsUpTo(LedgerTransactions, MaxLedger - 1)

Invocations ==
    {Invocation("normalizeTreasurySnapshot", <<raw>>) : raw \in RawSnapshots}
    \cup {Invocation("normalizeTransactionInput", <<value, categories>>) :
            value \in TransactionInputs,
            categories \in SeqsUpTo(RawCategories, 1)}
    \cup {Invocation("getMonthlyStats", <<transactions, month, f>>) :
            transactions \in CoreLedgers,
            month \in MonthArguments, f \in InitialFunds}
    \cup {Invocation("getWeeklyBreakdown", <<transactions, month>>) :
            transactions \in CoreLedgers,
            month \in MonthArguments}
    \cup {Invocation("calculateComparison", <<current, previous>>) :
            current \in Amounts, previous \in Amounts}
    \cup {Invocation("getMonthlyComparisons", <<transactions, month, f>>) :
            transactions \in CoreLedgers,
            month \in {m \in MonthArguments : MonthIndex(m.day) > 1},
            f \in InitialFunds}

\* Invocations of one run.
MaxInvocations == 2

\* The function returned `out` at the present time.
Returned(out) ==
    /\ Len(outputs) < MaxInvocations
    /\ outputs' = Append(outputs, [at |-> now, out |-> out])
    /\ UNCHANGED <<now, invocation, normVars, inputVars, calcVars, repoVars,
                   reportVars, asyncVars>>

InitCore ==
    /\ now = [day |-> DayOf(2024, 1, 17), ms |-> 8 * 60 * 60 * 1000]
    /\ invocation \in Invocations
    /\ outputs = <<>>
    /\ IdleNorm /\ IdleInput /\ IdleCalc /\ IdleRepo
    /\ IdleReport

InvokeNormalizeTreasurySnapshot ==
    /\ invocation.fn = "normalizeTreasurySnapshot"
    /\ Returned(normalizeTreasurySnapshot(invocation.args[1], now))

InvokeNormalizeTransactionInput ==
    /\ invocation.fn = "normalizeTransactionInput"
    /\ Returned(normalizeTransactionInput(invocation.args[1],
                                          invocation.args[2]))

\* Called as the hook calls it, with the same list as `transactions` and as
\* `allTransactions`.
InvokeGetMonthlyStats ==
    /\ invocation.fn = "getMonthlyStats"
    /\ Returned(getMonthlyStats(invocation.args[1], invocation.args[2],
                                invocation.args[3], invocation.args[1]))

InvokeGetWeeklyBreakdown ==
    /\ invocation.fn = "getWeeklyBreakdown"
    /\ Returned(getWeeklyBreakdown(invocation.args[1], invocation.args[2],
                                   now))

InvokeCalculateComparison ==
    /\ invocation.fn = "calculateComparison"
    /\ Returned(calculateComparison(invocation.args[1], invocation.args[2]))

InvokeGetMonthlyComparisons ==
    /\ invocation.fn = "getMonthlyComparisons"
    /\ Returned(getMonthlyComparisons(invocation.args[1], invocation.args[2],
                                      invocation.args[3]))

NextCore ==
    \/ InvokeNormalizeTreasurySnapshot \/ InvokeNormalizeTransactionInput
    \/ InvokeGetMonthlyStats \/ InvokeGetWeeklyBreakdown
    \/ InvokeCalculateComparison \/ InvokeGetMonthlyComparisons
    \/ Tick

SpecCore == InitCore /\ [][NextCore]_vars

\* C9 as claimed: invocations of one core function with the same arguments
\* return the same output whenever they happen.
C9_ReferentialTransparency ==
    \A i, j \in DOMAIN outputs : outputs[i].out = outputs[j].out

\* A record normalizeTreasurySnapshot keeps and stamps with the present time:
\* a kept transaction or period without createdAt.
MissesCreatedAt(raw) ==
    \/ \E i \in DOMAIN raw.transactions :
          /\ ~IsDroppedTransaction(raw.transactions[i])
          /\ ~Truthy(Get(raw.transactions[i], "createdAt"))
    \/ \E i \in DOMAIN raw.periods :
          /\ Truthy(Get(raw.periods[i], "id"))
          /\ Truthy(Get(raw.periods[i], "name"))
          /\ ~Truthy(Get(raw.periods[i], "createdAt"))

\* The output of the invocation depends on when it happens, at c1 or at c2.
ReadsClock(c1, c2) ==
    \/ /\ invocation.fn = "normalizeTreasurySnapshot"
       /\ MissesCreatedAt(invocation.args[1])
       /\ c1 # c2
    \/ /\ invocation.fn = "getWeeklyBreakdown"
       /\ isSameMonth(invocation.args[2], c1)
            \/ isSameMonth(invocation.args[2], c2)
       /\ c1.day # c2.day

\* C9, amended: invocations of one core function with the same arguments
\* return the same output whenever they happen, except
\* normalizeTreasurySnapshot at different times on a snapshot with a kept
\* transaction or period that has no createdAt, and getWeeklyBreakdown on
\* different days when the month is the calendar month of one of them.
C9_TransparentUnlessClockRead ==
    \A i, j \in DOMAIN outputs :
        ~ReadsClock(outputs[i].at, outputs[j].at)
            => outputs[i].out = outputs[j].out

\* A snapshot whose records all carry createdAt was repaired at two
\* different times, and a past month was broken down on two different days.
C9_Witness ==
    /\ Len(outputs) >= 2
    /\ outputs[1].at # outputs[2].at
    /\ ~ReadsClock(outputs[1].at, outputs[2].at)
    /\ \/ /\ invocation.fn = "normalizeTreasurySnapshot"
          /\ outputs[1].out.changed
          /\ outputs[1].out.snapshot.transactions # <<>>
       \/ /\ invocation.fn = "getWeeklyBreakdown"
          /\ Len(outputs[1].out) > 4

\* C13: calculateComparison(current, 0) does not divide: it returns
\* difference = current, percentageChange = null, and trend 'up' if
\* current > 0, 'down' if current < 0, 'same' if current = 0.
C13_ComparisonWithZeroPrevious ==
    (invocation.fn = "calculateComparison" /\ invocation.args[2] = 0) =>
        \A i \in DOMAIN outputs :
            /\ outputs[i].out.difference = invocation.args[1]
            /\ outputs[i].out.percentageChange = Null
            /\ outputs[i].out.trend =
                  (IF invocation.args[1] > 0 THEN "up"
                   ELSE IF invocation.args[1] < 0 THEN "down" ELSE "same")

\* comparison(-3, 0) was computed.
C13_Witness ==
    /\ invocation = Invocation("calculateComparison", <<-3, 0>>)
    /\ outputs # <<>>
    /\ outputs[1].out.trend = "down"

\* The fraction q is the percentage change from `previous` to `current`.
IsPercentageChange(q, current, previous) ==
    /\ q \in [num : Int, den : Nat \ {0}]
    /\ q.num * Abs(previous) = q.den * (current - previous) * 100

\* C14: for previous # 0, calculateComparison returns difference =
\* current - previous and percentageChange = (current - previous) /
\* |previous| * 100; trend is 'same' exactly when 100 * |current - previous|
\* < |previous|, else 'up' when current > previous and 'down' when current <
\* previous, also for a negative previous; comparison(150, 200) gives
\* difference -50, percentageChange -25 and trend 'down'.
C14_ComparisonWithNonZeroPrevious ==
    (invocation.fn = "calculateComparison" /\ invocation.args[2] # 0) =>
        \A i \in DOMAIN outputs :
            /\ outputs[i].out.difference
                  = invocation.args[1] - invocation.args[2]
            /\ IsPercentageChange(outputs[i].out.percentageChange,
                                  invocation.args[1], invocation.args[2])
            /\ outputs[i].out.trend =
                  (IF 100 * Abs(invocation.args[1] - invocation.args[2])
                        < Abs(invocation.args[2])
                   THEN "same"
                   ELSE IF invocation.args[1] > invocation.args[2]
                        THEN "up" ELSE "down")
            /\ invocation.args = <<150, 200>> =>
                  /\ outputs[i].out.difference = -50
                  /\ outputs[i].out.percentageChange
                        = [num |-> -25, den |-> 1]
                  /\ outputs[i].out.trend = "down"

\* A rise from a negative previous value was compared, as was a change of
\* less than one percent.
C14_Witness ==
    /\ invocation.fn = "calculateComparison"
    /\ outputs # <<>>
    /\ \/ invocation.args = <<-3, -100>> /\ outputs[1].out.trend = "up"
       \/ invocation.args = <<150, 200>> /\ outputs[1].out.trend = "down"

\* C29: for every pair (current, previous), calculateComparison returns
\* trend 'up' only if difference > 0 and 'down' only if difference < 0, a
\* difference of 0 always gives 'same', and the trend 'no-data' is never
\* returned.
C29_TrendAgreesWithDifference ==
    invocation.fn = "calculateComparison" =>
        \A i \in DOMAIN outputs :
            /\ outputs[i].out.difference
                  = invocation.args[1] - invocation.args[2]
            /\ outputs[i].out.trend = "up" => outputs[i].out.difference > 0
            /\ outputs[i].out.trend = "down" => outputs[i].out.difference < 0
            /\ outputs[i].out.difference = 0 => outputs[i].out.trend = "same"
            /\ outputs[i].out.trend \in {"up", "down", "same"}

\* Two equal values other than zero were compared, and so was a fall to a
\* value that is still positive.
C29_Witness ==
    /\ invocation.fn = "calculateComparison"
    /\ outputs # <<>>
    /\ \/ /\ invocation.args = <<100, 100>>
          /\ outputs[1].out.trend = "same"
       \/ /\ invocation.args = <<5, 250>>
          /\ outputs[1].out.trend = "down"

-----------------------------------------------------------------------------
(* The report of one month: its totals and its weekly breakdown *)

InitReport ==
    /\ now = [day |-> DayOf(2024, 1, 17), ms |-> 8 * 60 * 60 * 1000]
    /\ ledger \in CoreLedgers
    /\ fund \in {Num(f) : f \in InitialFunds}
    /\ balance = None
    /\ selectedMonth \in MonthArguments
    /\ stats = None
    /\ weeklyBreakdown = None
    /\ pending = None /\ hook = None
    /\ IdleNorm /\ IdleInput /\ IdleRepo /\ IdleCore

\* getMonthlyStats(transactions, month, currentPeriod.initialFund,
\* transactions)
getStatsForMonth ==
    /\ stats = None
    /\ stats' = getMonthlyStats(ledger, selectedMonth, fund.n, ledger)
    /\ UNCHANGED <<now, selectedMonth, weeklyBreakdown, normVars, inputVars,
                   calcVars, repoVars, coreVars, asyncVars>>

\* getWeeklyBreakdown(transactions, month), which reads the clock.
getWeeklyBreakdownForMonth ==
    /\ weeklyBreakdown = None
    /\ weeklyBreakdown' =
          [at |-> now, weeks |-> getWeeklyBreakdown(ledger, selectedMonth, now)]
    /\ UNCHANGED <<now, selectedMonth, stats, normVars, inputVars, calcVars,
                   repoVars, coreVars, asyncVars>>

\* getStatsForMonth(subMonths(selectedDate, 1)) (Reports.tsx line 51), the
\* previous month as getMonthlyComparisons takes it (calculations.ts lines
\* 181-184).
getPreviousMonthStats ==
    /\ invocation = None
    /\ MonthIndex(selectedMonth.day) > 1
    /\ invocation' = Invocation("getStatsForMonth",
                                <<subMonths(selectedMonth)>>)
    /\ outputs' = <<[at |-> now,
                     out |-> getMonthlyStats(ledger, subMonths(selectedMonth),
                                             fund.n, ledger)]>>
    /\ UNCHANGED <<now, normVars, inputVars, calcVars, repoVars, reportVars,
                   asyncVars>>

NextReport ==
    \/ getStatsForMonth
    \/ getWeeklyBreakdownForMonth
    \/ getPreviousMonthStats
    \/ Tick

SpecReport == InitReport /\ [][NextReport]_vars

\* The sum of one field over the entries of a weekly breakdown.
RECURSIVE SumOverWeeks(_, _)
SumOverWeeks(weeks, field) ==
    IF weeks = <<>> THEN 0
    ELSE weeks[1][field] + SumOverWeeks(Tail(weeks), field)

\* The weeks of a breakdown whose days include the date of a transaction.
WeeksHolding(weeks, transaction) ==
    {w \in DOMAIN weeks :
        /\ NotAfter(parseISO(Str(weeks[w].weekStart)),
                    parseISO(Get(transaction, "date")))
        /\ NotAfter(parseISO(Get(transaction, "date")),
                    endOfDay(parseISO(Str(weeks[w].weekEnd))))}

\* The month of the report ended before the month the breakdown was made in.
PastMonthReport ==
    /\ stats # None
    /\ weeklyBreakdown # None
    /\ isBefore(endOfMonth(selectedMonth), startOfMonth(weeklyBreakdown.at))

\* C11: for a month entirely before the current month, every transaction
\* dated in that month falls in exactly one week of getWeeklyBreakdown, so
\* the sums of income, donations, investments, expenses and net over the
\* weekly entries equal the same fields of getMonthlyStats.
C11_WeeklySumsReconcile ==
    PastMonthReport =>
        /\ \A i \in DOMAIN ledger :
              isSameMonth(parseISO(Get(ledger[i], "date")), selectedMonth)
                  => Cardinality(WeeksHolding(weeklyBreakdown.weeks,
                                              ledger[i])) = 1
        /\ \A field \in {"income", "donations", "investments", "expenses",
                          "net"} :
              SumOverWeeks(weeklyBreakdown.weeks, field) = stats[field]

\* January 2024 was reported in February, with movements in two of its
\* weeks.
C11_Witness ==
    /\ PastMonthReport
    /\ selectedMonth.day = DayOf(2024, 1, 31)
    /\ Len(ledger) = 2
    /\ \E v, w \in DOMAIN weeklyBreakdown.weeks :
          /\ v # w
          /\ weeklyBreakdown.weeks[v].net # 0
          /\ weeklyBreakdown.weeks[w].net # 0

\* The transactions of the ledger dated on a day of the reported month.
DatedInSelectedMonth ==
    SelectSeq(ledger,
        LAMBDA t :
            /\ isValid(parseISO(Get(t, "date")))
            /\ parseISO(Get(t, "date")).day
                  \in FirstDayOf(MonthIndex(selectedMonth.day))
                        .. LastDayOf(MonthIndex(selectedMonth.day)))

\* The movements of the example: an income of 1000 on 2024-01-05 and an
\* expense of 300 on 2024-01-20.
ExampleLedger ==
    << Movement("t1", "income", 1000, "2024-01-05", "cat-income-1"),
       Movement("t2", "expense", 300, "2024-01-20", "cat-expense-1") >>

\* C12: getMonthlyStats(T, M, F, A) returns as income, donations,
\* investments and expenses the sums of the amounts of the transactions of
\* T of each type dated in M, first and last day included, and
\* net = income + donations + investments - expenses; for an income of 1000
\* on 2024-01-05 and an expense of 300 on 2024-01-20, F = 500 and January
\* 2024 it returns income 1000, donations 0, investments 0, expenses 300,
\* net 700 and balance 1200.
C12_MonthlyTotals ==
    stats # None =>
        /\ stats.income = SumOfTypes(DatedInSelectedMonth, {"income"})
        /\ stats.donations = SumOfTypes(DatedInSelectedMonth, {"donation"})
        /\ stats.investments
              = SumOfTypes(DatedInSelectedMonth, {"investment"})
        /\ stats.expenses = SumOfTypes(DatedInSelectedMonth, {"expense"})
        /\ stats.net = stats.income + stats.donations + stats.investments
                          - stats.expenses
        /\ (/\ ledger = ExampleLedger
            /\ fund = Num(500)
            /\ MonthIndex(selectedMonth.day) = 2)
                => stats = [income |-> 1000, donations |-> 0,
                            investments |-> 0, expenses |-> 300,
                            net |-> 700, balance |-> 1200]

\* The totals of January 2024 were computed for a ledger with a movement on
\* the first day of the month and one on the last.
C12_Witness ==
    /\ stats # None
    /\ MonthIndex(selectedMonth.day) = 2
    /\ \E i, j \in DOMAIN ledger :
          /\ Get(ledger[i], "date") = Str("2024-01-01")
          /\ Get(ledger[j], "date") = Str("2024-01-31")

\* The breakdown was made in a month after the selected one.
PastMonthBreakdown ==
    /\ weeklyBreakdown # None
    /\ isBefore(endOfMonth(selectedMonth), startOfMonth(weeklyBreakdown.at))

\* The day a yyyy-MM-dd string names.
DayNamed(string) == parseISO(Str(string)).day

\* C22: for a past month the entries of getWeeklyBreakdown are numbered
\* 1..N in chronological order, the first weekStart is the first day of the
\* month and the last weekEnd its last day, and every other weekStart is a
\* Monday and the day after the previous weekEnd: the weeks are contiguous,
\* do not overlap and stay inside the month.
C22_WeeklyPartition ==
    PastMonthBreakdown =>
        /\ weeklyBreakdown.weeks # <<>>
        /\ \A k \in DOMAIN weeklyBreakdown.weeks :
              /\ weeklyBreakdown.weeks[k].weekNumber = k
              /\ DayNamed(weeklyBreakdown.weeks[k].weekStart)
                    <= DayNamed(weeklyBreakdown.weeks[k].weekEnd)
              /\ k > 1 =>
                    /\ WeekDay(DayNamed(weeklyBreakdown.weeks[k].weekStart))
                          = 0
                    /\ DayNamed(weeklyBreakdown.weeks[k].weekStart)
                          = DayNamed(weeklyBreakdown.weeks[k - 1].weekEnd) + 1
        /\ DayNamed(weeklyBreakdown.weeks[1].weekStart)
              = FirstDayOf(MonthIndex(selectedMonth.day))
        /\ DayNamed(weeklyBreakdown.weeks[Len(weeklyBreakdown.weeks)].weekEnd)
              = LastDayOf(MonthIndex(selectedMonth.day))

\* December 2023, which starts on a Friday and ends on a Sunday, was broken
\* down in January into five weeks, the first one clipped to three days.
C22_Witness ==
    /\ PastMonthBreakdown
    /\ MonthIndex(selectedMonth.day) = 1
    /\ Len(weeklyBreakdown.weeks) = 5
    /\ weeklyBreakdown.weeks[1].weekEnd = "2023-12-03"

\* The last day of the window of the breakdown: the day it was made on
\* when that day is in the selected month, else the last day of the month.
EffectiveEndDay ==
    IF MonthIndex(weeklyBreakdown.at.day) = MonthIndex(selectedMonth.day)
    THEN weeklyBreakdown.at.day
    ELSE LastDayOf(MonthIndex(selectedMonth.day))

\* C23: the window of getWeeklyBreakdown ends at the end of the month,
\* except that for the current calendar month it ends at the end of today
\* and no entry has a weekEnd after today; the result is the empty sequence
\* when the capped end precedes the start of the month.
C23_EffectiveEnd ==
    weeklyBreakdown # None =>
        /\ (weeklyBreakdown.weeks = <<>>)
              = (EffectiveEndDay < FirstDayOf(MonthIndex(selectedMonth.day)))
        /\ weeklyBreakdown.weeks # <<>> =>
              /\ DayNamed(weeklyBreakdown.weeks[
                             Len(weeklyBreakdown.weeks)].weekEnd)
                    = EffectiveEndDay
              /\ \A k \in DOMAIN weeklyBreakdown.weeks :
                    DayNamed(weeklyBreakdown.weeks[k].weekEnd)
                        <= EffectiveEndDay

\* January 2024 was broken down on 17 January: three weeks, the last one
\* ending that day.
C23_Witness ==
    /\ weeklyBreakdown # None
    /\ MonthIndex(selectedMonth.day) = 2
    /\ weeklyBreakdown.at.day = DayOf(2024, 1, 17)
    /\ Len(weeklyBreakdown.weeks) = 3
    /\ weeklyBreakdown.weeks[3].weekEnd = "2024-01-17"


\* C30: for every transaction list T, initial fund F and month M,
\* getMonthlyStats(T, M, F, T).balance equals the balance of
\* getMonthlyStats(T, M-1, F, T) plus getMonthlyStats(T, M, F, T).net, M-1
\* being the month of subMonths(M, 1), the December before a January
\* included.
C30_BalanceRecurrence ==
    (stats # None /\ invocation # None) =>
        /\ MonthIndex(invocation.args[1].day)
              = MonthIndex(selectedMonth.day) - 1
        /\ stats.balance = outputs[1].out.balance + stats.net

\* The stats of a month and of the month before it were computed, from
\* January back to December or with a movement in each of the two months.
C30_Witness ==
    /\ stats # None
    /\ invocation # None
    /\ stats.net # 0
    /\ outputs[1].out.balance # fund.n
    /\ \/ /\ format(startOfMonth(selectedMonth)) = "2024-01-01"
          /\ format(startOfMonth(invocation.args[1])) = "2023-12-01"
       \/ /\ format(startOfMonth(selectedMonth)) = "2024-02-01"
          /\ stats.investments > 0

-----------------------------------------------------------------------------
(* getMonthlyStats of a selection of transactions against the whole ledger *)

\* The `transactions` arguments that are not the whole ledger.
Selections == SeqsUpTo(LedgerTransactions, 1)

InitStats ==
    /\ now = [day |-> DayOf(2024, 1, 17), ms |-> 8 * 60 * 60 * 1000]
    /\ ledger \in CoreLedgers
    /\ fund \in {Num(f) : f \in InitialFunds}
    /\ balance = None
    /\ selectedMonth \in MonthArguments
    /\ stats = None
    /\ weeklyBreakdown = None
    /\ invocation = None
    /\ outputs = <<>>
    /\ pending = None /\ hook = None
    /\ IdleNorm /\ IdleInput /\ IdleRepo

\* getMonthlyStats(transactions, month, initialFund, allTransactions) with
\* the ledger as allTransactions.
InvokeGetMonthlyStatsOfSelection ==
    /\ invocation = None
    /\ \E transactions \in Selections :
        /\ invocation' = Invocation("getMonthlyStats",
                              <<transactions, selectedMonth, fund.n, ledger>>)
        /\ outputs' = <<[at |-> now,
                         out |-> getMonthlyStats(transactions, selectedMonth,
                                                 fund.n, ledger)]>>
    /\ UNCHANGED <<now, normVars, inputVars, calcVars, repoVars, reportVars, asyncVars>>

NextStats == getStatsForMonth \/ InvokeGetMonthlyStatsOfSelection

SpecStats == InitStats /\ [][NextStats]_vars

\* The transactions of the ledger dated on or before the last day of the
\* selected month.
DatedUpToSelectedMonth ==
    SelectSeq(ledger,
        LAMBDA t :
            /\ isValid(parseISO(Get(t, "date")))
            /\ parseISO(Get(t, "date")).day
                  <= LastDayOf(MonthIndex(selectedMonth.day)))

\* C21: the balance of getMonthlyStats(T, M, F, A) is F plus the inflows
\* minus the outflows of exactly the transactions of A dated on or before
\* the last day of M; it does not depend on T, so two calls that differ only
\* in T return the same balance.
C21_MonthEndBalance ==
    /\ invocation # None =>
          outputs[1].out.balance
            = fund.n
              + SumOfTypes(DatedUpToSelectedMonth,
                           {"income", "donation", "investment"})
              - SumOfTypes(DatedUpToSelectedMonth, {"expense"})
    /\ (invocation # None /\ stats # None) =>
          outputs[1].out.balance = stats.balance

\* The stats of a month were computed for the whole ledger and for a
\* selection with another movement, the ledger having a movement inside the
\* month and one after it.
C21_Witness ==
    /\ invocation # None
    /\ stats # None
    /\ Len(invocation.args[1]) = 1
    /\ \A i \in DOMAIN ledger : ledger[i] # invocation.args[1][1]
    /\ Len(DatedUpToSelectedMonth) = 1
    /\ Len(ledger) = 2
    /\ outputs[1].out.net # stats.net

-----------------------------------------------------------------------------
(* The repository, one call at a time *)

CreationInputs ==
    {Obj(Put(Omit(t, {"id", "createdAt", "updatedAt"}),
             "categoryId", Str(generateId(1)))) :
        t \in {txIncome, txExpense, txZero, txBadType, txBadDate}}

TransactionUpdates ==
    { << <<"type", Str("bogus")>> >>,
      << <<"amount", Num(0)>> >>,
      << <<"categoryId", Str("cat-gone")>> >>,
      << <<"amount", Num(20)>> >> }

CategoryInputs ==
    { << <<"name", Str("Ventas")>>, <<"type", Str("income")>>,
         <<"isDefault", Bool(TRUE)>> >>,
      << <<"name", Str("")>>, <<"type", Str("expense")>> >> }

CategoryUpdates == { << <<"type", Str("expense")>> >> }

GeneratedIds == {generateId(k) : k \in 1 .. MaxIds}

\* Repository calls of one run.
MaxCalls == 3

\* One more call is made.
Call == calls < MaxCalls /\ calls' = calls + 1

CategoryIds == {DocIdOrder[i] : i \in DOMAIN DocIdOrder}

Response(op, id, data, error, changed, snap) ==
    [op |-> op, id |-> id, data |-> data, error |-> error,
     changed |-> changed, snapshot |-> snap]

InitRepo ==
    /\ now = [day |-> DayOf(2024, 1, 17), ms |-> 8 * 60 * 60 * 1000]
    /\ backend \in {"local", "firebase"}
    /\ localStorage = [transactions |-> NoItem, categories |-> NoItem,
                       periods |-> NoItem, settings |-> NoItem]
    /\ firestore = [transactions |-> {}, categories |-> {}, periods |-> {},
                    settings |-> [exists |-> FALSE, data |-> <<>>]]
    /\ issued = 0
    /\ calls = 0
    /\ response = Response("init", "", Undef, "", FALSE, None)
    /\ IdleNorm /\ IdleInput /\ IdleCalc /\ IdleCore
    /\ IdleReport

\* getSnapshot returns `result` after writing it back if it changed.
LocalGetSnapshotReturns(result) ==
    /\ localStorage' = LocalStoreAfterGetSnapshot(localStorage, result)
    /\ response' = Response("getSnapshot", "", Undef, "",
                            result.changed, result.snapshot)

LocalGetSnapshot ==
    /\ backend = "local"
    /\ Call
    /\ LocalGetSnapshotReturns(
          normalizeTreasurySnapshot(LocalReadSnapshot(localStorage), now))
    /\ UNCHANGED <<now, backend, firestore, issued,
                   normVars, inputVars, calcVars,
                   coreVars, reportVars, asyncVars>>

\* addTransaction(data) with `result` the normalized input: throws on
\* null, otherwise saves under a fresh id.
LocalAddTransactionWith(data, categories, result) ==
    /\ result # Null => issued < MaxIds
    /\ localStorage' = LocalStoreAfterAdd(localStorage, result, categories,
                                          generateId(issued + 1), now)
    /\ issued' = IF result = Null THEN issued ELSE issued + 1
    /\ response' =
         Response("addTransaction", "", data,
                  IF result = Null
                  THEN "Movimiento inválido para guardar." ELSE "",
                  FALSE, None)

LocalAddTransaction ==
    /\ backend = "local"
    /\ Call
    /\ \E data \in CreationInputs :
        LocalAddTransactionWith(data, getCategories(localStorage),
            normalizeTransactionInput(data, getCategories(localStorage)))
    /\ UNCHANGED <<now, backend, firestore, normVars, inputVars, calcVars,
                   coreVars, reportVars, asyncVars>>

LocalUpdateTransaction ==
    /\ backend = "local"
    /\ Call
    /\ \E id \in GeneratedIds, updates \in TransactionUpdates :
        /\ localStorage' = storageUpdateTransaction(localStorage, Str(id),
                                                    updates, now)
        /\ response' = Response("updateTransaction", "", Undef, "",
                                FALSE, None)
    /\ UNCHANGED <<now, backend, firestore, issued,
                   normVars, inputVars, calcVars,
                   coreVars, reportVars, asyncVars>>

LocalDeleteTransaction ==
    /\ backend = "local"
    /\ Call
    /\ \E id \in GeneratedIds :
        /\ localStorage' = storageDeleteTransaction(localStorage, Str(id))
        /\ response' = Response("deleteTransaction", "", Undef, "",
                                FALSE, None)
    /\ UNCHANGED <<now, backend, firestore, issued,
                   normVars, inputVars, calcVars,
                   coreVars, reportVars, asyncVars>>

LocalAddCategory ==
    /\ backend = "local"
    /\ Call
    /\ issued < MaxIds
    /\ \E data \in CategoryInputs :
        /\ localStorage' =
              storageAddCategory(localStorage,
                                 Put(data, "id", Str(generateId(issued + 1))))
        /\ response' = Response("addCategory", "", Undef, "", FALSE, None)
    /\ issued' = issued + 1
    /\ UNCHANGED <<now, backend, firestore, normVars, inputVars, calcVars,
                   coreVars, reportVars, asyncVars>>

LocalUpdateCategory ==
    /\ backend = "local"
    /\ Call
    /\ \E id \in CategoryIds, updates \in CategoryUpdates :
        /\ localStorage' = storageUpdateCategory(localStorage, Str(id), updates)
        /\ response' = Response("updateCategory", "", Undef, "",
                                FALSE, None)
    /\ UNCHANGED <<now, backend, firestore, issued,
                   normVars, inputVars, calcVars,
                   coreVars, reportVars, asyncVars>>

LocalDeleteCategory ==
    /\ backend = "local"
    /\ Call
    /\ \E id \in CategoryIds :
        /\ localStorage' = storageDeleteCategory(localStorage, Str(id))
        /\ response' = Response("deleteCategory", "", Undef, "", FALSE, None)
    /\ UNCHANGED <<now, backend, firestore, issued,
                   normVars, inputVars, calcVars,
                   coreVars, reportVars, asyncVars>>

FirebaseGetSnapshotReturns(result) ==
    /\ firestore' = FirebaseStoreAfterGetSnapshot(firestore, result)
    /\ response' = Response("getSnapshot", "", Undef, "",
                            result.changed, result.snapshot)

FirebaseGetSnapshot ==
    /\ backend = "firebase"
    /\ Call
    /\ FirebaseGetSnapshotReturns(
          normalizeTreasurySnapshot(FirebaseReadSnapshot(firestore), now))
    /\ UNCHANGED <<now, backend, localStorage, issued,
                   normVars, inputVars, calcVars,
                   coreVars, reportVars, asyncVars>>

FirebaseAddTransactionWith(data, categories, result) ==
    /\ result # Null => issued < MaxIds
    /\ firestore' = FirebaseStoreAfterAdd(firestore, result, categories,
                                          generateId(issued + 1), now)
    /\ issued' = IF result = Null THEN issued ELSE issued + 1
    /\ response' =
         Response("addTransaction", "", data,
                  IF result = Null
                  THEN "Movimiento invÃ¡lido para guardar." ELSE "",
                  FALSE, None)

FirebaseAddTransaction ==
    /\ backend = "firebase"
    /\ Call
    /\ \E data \in CreationInputs :
        FirebaseAddTransactionWith(data, fetchCollection(firestore.categories),
            normalizeTransactionInput(data,
                                      fetchCollection(firestore.categories)))
    /\ UNCHANGED <<now, backend, localStorage, normVars, inputVars, calcVars,
                   coreVars, reportVars, asyncVars>>

\* updateDoc rejects when the document does not exist.
FirebaseUpdateTransaction ==
    /\ backend = "firebase"
    /\ Call
    /\ \E id \in GeneratedIds, updates \in TransactionUpdates :
        LET payload == sanitizeFirestoreData(
                          Put(updates, "updatedAt", Str(toISOString(now))))
            found == DocExists(firestore.transactions, id)
        IN  /\ firestore' =
                 IF found
                 THEN [firestore EXCEPT !.transactions =
                          setDocMerge(firestore.transactions, id, payload)]
                 ELSE firestore
            /\ response' = Response("updateTransaction", "", Undef,
                                    IF found THEN "" ELSE "not-found",
                                    FALSE, None)
    /\ UNCHANGED <<now, backend, localStorage, issued,
                   normVars, inputVars, calcVars,
                   coreVars, reportVars, asyncVars>>

FirebaseDeleteTransaction ==
    /\ backend = "firebase"
    /\ Call
    /\ \E id \in GeneratedIds :
        /\ firestore' = [firestore EXCEPT !.transactions =
                            deleteDoc(firestore.transactions, id)]
        /\ response' = Response("deleteTransaction", "", Undef, "",
                                FALSE, None)
    /\ UNCHANGED <<now, backend, localStorage, issued,
                   normVars, inputVars, calcVars,
                   coreVars, reportVars, asyncVars>>

FirebaseAddCategory ==
    /\ backend = "firebase"
    /\ Call
    /\ issued < MaxIds
    /\ \E data \in CategoryInputs :
        LET id == generateId(issued + 1)
        IN  /\ firestore' = [firestore EXCEPT !.categories =
                                setDoc(firestore.categories, id,
                                       Put(data, "id", Str(id)))]
            /\ response' = Response("addCategory", "", Undef, "",
                                    FALSE, None)
    /\ issued' = issued + 1
    /\ UNCHANGED <<now, backend, localStorage, normVars, inputVars, calcVars,
                   coreVars, reportVars, asyncVars>>

FirebaseUpdateCategory ==
    /\ backend = "firebase"
    /\ Call
    /\ \E id \in CategoryIds, updates \in CategoryUpdates :
        LET found == DocExists(firestore.categories, id)
        IN  /\ firestore' =
                 IF found
                 THEN [firestore EXCEPT !.categories =
                          setDocMerge(firestore.categories, id, updates)]
                 ELSE firestore
            /\ response' = Response("updateCategory", "", Undef,
                                    IF found THEN "" ELSE "not-found",
                                    FALSE, None)
    /\ UNCHANGED <<now, backend, localStorage, issued,
                   normVars, inputVars, calcVars,
                   coreVars, reportVars, asyncVars>>

FirebaseDeleteCategory ==
    /\ backend = "firebase"
    /\ Call
    /\ \E id \in CategoryIds :
        /\ firestore' = [firestore EXCEPT !.categories =
                            deleteDoc(firestore.categories, id)]
        /\ response' = Response("deleteCategory", "", Undef, "", FALSE, None)
    /\ UNCHANGED <<now, backend, localStorage, issued,
                   normVars, inputVars, calcVars,
                   coreVars, reportVars, asyncVars>>

NextRepo ==
    \/ LocalGetSnapshot \/ LocalAddTransaction \/ LocalUpdateTransaction
    \/ LocalDeleteTransaction \/ LocalAddCategory \/ LocalUpdateCategory
    \/ LocalDeleteCategory
    \/ FirebaseGetSnapshot \/ FirebaseAddTransaction
    \/ FirebaseUpdateTransaction \/ FirebaseDeleteTransaction
    \/ FirebaseAddCategory \/ FirebaseUpdateCategory \/ FirebaseDeleteCategory

SpecRepo == InitRepo /\ [][NextRepo]_vars

-----------------------------------------------------------------------------
(* What the repository of the run holds *)

StoredTransactions ==
    IF backend = "local" THEN getTransactions(localStorage)
    ELSE fetchCollection(firestore.transactions)

StoredCategories ==
    IF backend = "local" THEN getCategories(localStorage)
    ELSE fetchCollection(firestore.categories)

\* A movement no normalized snapshot may contain: unknown type, amount that
\* is not a positive finite number, or a category that is missing or of
\* another type.
InvalidTransaction(transaction, categories) ==
    \/ ~isTransactionType(Get(transaction, "type"))
    \/ ~NumberIsFinite(ToNumber(Get(transaction, "amount")))
    \/ ToNumber(Get(transaction, "amount")).n <= 0
    \/ ~\E i \in DOMAIN categories :
          /\ Get(categories[i], "id") = Get(transaction, "categoryId")
          /\ Get(categories[i], "type") = Get(transaction, "type")

NoInvalidTransaction(transactions, categories) ==
    \A i \in DOMAIN transactions :
        ~InvalidTransaction(transactions[i], categories)

\* C4: the getSnapshot that follows an updateTransaction returns no invalid
\* movement and leaves no invalid movement in the backing store, on the
\* local-storage and on the Firestore repository.
C4_ReadRepairClosesWindow ==
    [][(response.op = "updateTransaction" /\ response'.op = "getSnapshot")
         => /\ NoInvalidTransaction(response'.snapshot.transactions,
                                    response'.snapshot.categories)
            /\ NoInvalidTransaction(StoredTransactions', StoredCategories')]_vars

\* C5: a getSnapshot that directly follows a getSnapshot which repaired the
\* store (changed = true) computes changed = false and writes nothing, on
\* both backends.
C5_RepairPaidOnce ==
    [][(/\ response.op = "getSnapshot" /\ response.changed
        /\ response'.op = "getSnapshot" /\ calls' # calls)
         => /\ ~response'.changed
            /\ localStorage' = localStorage
            /\ firestore' = firestore]_vars

InvalidMovementErrors ==
    {"Movimiento inválido para guardar.", "Movimiento invÃ¡lido para guardar."}

\* C6: an addTransaction call whose input has an unknown type, an amount
\* that is not a positive finite number or an unparseable date raises the
\* invalid-movement error and leaves the stored transactions and the stored
\* categories as they were, on both backends.
C6_InvalidCreationPersistsNothing ==
    [][(/\ calls' # calls /\ response'.op = "addTransaction"
        /\ IsRejectedInput(response'.data))
         => /\ response'.error \in InvalidMovementErrors
            /\ StoredTransactions' = StoredTransactions
            /\ StoredCategories' = StoredCategories]_vars

\* A rejected creation on a store that already holds a movement.
C6_Witness ==
    /\ response.op = "addTransaction"
    /\ IsRejectedInput(response.data)
    /\ response.error \in InvalidMovementErrors
    /\ StoredTransactions # <<>>

-----------------------------------------------------------------------------
(* The two repositories given the same calls, side by side *)

\* updateDoc(docRef, payload) of a transaction: no write if the document is
\* missing.
FirebaseStoreAfterUpdateTransaction(fs, id, updates, clock) ==
    IF DocExists(fs.transactions, id)
    THEN [fs EXCEPT !.transactions =
            setDocMerge(fs.transactions, id,
                sanitizeFirestoreData(
                    Put(updates, "updatedAt", Str(toISOString(clock)))))]
    ELSE fs

\* updateDoc(docRef, updates) of a category.
FirebaseStoreAfterUpdateCategory(fs, id, updates) ==
    IF DocExists(fs.categories, id)
    THEN [fs EXCEPT !.categories = setDocMerge(fs.categories, id, updates)]
    ELSE fs

\* What the two repositories answered to the same call.
Responses(local, firebase) == [local |-> local, firebase |-> firebase]

InitBoth ==
    /\ now = [day |-> DayOf(2024, 1, 17), ms |-> 8 * 60 * 60 * 1000]
    /\ backend = "both"
    /\ localStorage = [transactions |-> NoItem, categories |-> NoItem,
                       periods |-> NoItem, settings |-> NoItem]
    /\ firestore = [transactions |-> {}, categories |-> {}, periods |-> {},
                    settings |-> [exists |-> FALSE, data |-> <<>>]]
    /\ issued = 0
    /\ calls = 0
    /\ response = Responses(Response("init", "", Undef, "", FALSE, None),
                            Response("init", "", Undef, "", FALSE, None))
    /\ IdleNorm /\ IdleInput /\ IdleCalc /\ IdleCore
    /\ IdleReport

BothGetSnapshotReturn(local, firebase) ==
    /\ localStorage' = LocalStoreAfterGetSnapshot(localStorage, local)
    /\ firestore' = FirebaseStoreAfterGetSnapshot(firestore, firebase)
    /\ response' =
          Responses(Response("getSnapshot", "", Undef, "", local.changed,
                             local.snapshot),
                    Response("getSnapshot", "", Undef, "", firebase.changed,
                             firebase.snapshot))

BothGetSnapshot ==
    /\ Call
    /\ BothGetSnapshotReturn(
          normalizeTreasurySnapshot(LocalReadSnapshot(localStorage), now),
          normalizeTreasurySnapshot(FirebaseReadSnapshot(firestore), now))
    /\ UNCHANGED <<now, backend, issued, normVars, inputVars, calcVars,
                   coreVars, reportVars, asyncVars>>

\* The generated id is used by the repositories that accept the movement.
BothAddTransactionWith(data, localResult, firebaseResult) ==
    /\ (localResult # Null \/ firebaseResult # Null) => issued < MaxIds
    /\ localStorage' =
          LocalStoreAfterAdd(localStorage, localResult,
                             getCategories(localStorage),
                             generateId(issued + 1), now)
    /\ firestore' =
          FirebaseStoreAfterAdd(firestore, firebaseResult,
                                fetchCollection(firestore.categories),
                                generateId(issued + 1), now)
    /\ issued' = IF localResult = Null /\ firebaseResult = Null
                 THEN issued ELSE issued + 1
    /\ response' =
          Responses(Response("addTransaction", "", data,
                             IF localResult = Null
                             THEN "Movimiento inválido para guardar." ELSE "",
                             FALSE, None),
                    Response("addTransaction", "", data,
                             IF firebaseResult = Null
                             THEN "Movimiento invÃ¡lido para guardar." ELSE "",
                             FALSE, None))

BothAddTransaction ==
    /\ Call
    /\ \E data \in CreationInputs :
        BothAddTransactionWith(data,
            normalizeTransactionInput(data, getCategories(localStorage)),
            normalizeTransactionInput(data,
                                      fetchCollection(firestore.categories)))
    /\ UNCHANGED <<now, backend, normVars, inputVars, calcVars, coreVars,
                   reportVars, asyncVars>>

BothUpdateTransaction ==
    /\ Call
    /\ \E id \in GeneratedIds, updates \in TransactionUpdates :
        /\ localStorage' = storageUpdateTransaction(localStorage, Str(id),
                                                    updates, now)
        /\ firestore' = FirebaseStoreAfterUpdateTransaction(firestore, id,
                                                            updates, now)
        /\ response' =
              Responses(Response("updateTransaction", id, Undef, "", FALSE,
                                 None),
                        Response("updateTransaction", id, Undef,
                                 IF DocExists(firestore.transactions, id)
                                 THEN "" ELSE "not-found",
                                 FALSE, None))
    /\ UNCHANGED <<now, backend, issued, normVars, inputVars, calcVars,
                   coreVars, reportVars, asyncVars>>

BothDeleteTransaction ==
    /\ Call
    /\ \E id \in GeneratedIds :
        /\ localStorage' = storageDeleteTransaction(localStorage, Str(id))
        /\ firestore' = [firestore EXCEPT !.transactions =
                            deleteDoc(firestore.transactions, id)]
        /\ response' =
              Responses(Response("deleteTransaction", id, Undef, "", FALSE,
                                 None),
                        Response("deleteTransaction", id, Undef, "", FALSE,
                                 None))
    /\ UNCHANGED <<now, backend, issued, normVars, inputVars, calcVars,
                   coreVars, reportVars, asyncVars>>

BothAddCategory ==
    /\ Call
    /\ issued < MaxIds
    /\ \E data \in CategoryInputs :
        /\ localStorage' =
              storageAddCategory(localStorage,
                                 Put(data, "id", Str(generateId(issued + 1))))
        /\ firestore' = [firestore EXCEPT !.categories =
                            setDoc(firestore.categories,
                                   generateId(issued + 1),
                                   Put(data, "id",
                                       Str(generateId(issued + 1))))]
        /\ response' =
              Responses(Response("addCategory", "", Undef, "", FALSE, None),
                        Response("addCategory", "", Undef, "", FALSE, None))
    /\ issued' = issued + 1
    /\ UNCHANGED <<now, backend, normVars, inputVars, calcVars, coreVars,
                   reportVars, asyncVars>>

BothUpdateCategory ==
    /\ Call
    /\ \E id \in CategoryIds, updates \in CategoryUpdates :
        /\ localStorage' = storageUpdateCategory(localStorage, Str(id),
                                                 updates)
        /\ firestore' = FirebaseStoreAfterUpdateCategory(firestore, id,
                                                         updates)
        /\ response' =
              Responses(Response("updateCategory", id, Undef, "", FALSE,
                                 None),
                        Response("updateCategory", id, Undef,
                                 IF DocExists(firestore.categories, id)
                                 THEN "" ELSE "not-found",
                                 FALSE, None))
    /\ UNCHANGED <<now, backend, issued, normVars, inputVars, calcVars,
                   coreVars, reportVars, asyncVars>>

BothDeleteCategory ==
    /\ Call
    /\ \E id \in CategoryIds :
        /\ localStorage' = storageDeleteCategory(localStorage, Str(id))
        /\ firestore' = [firestore EXCEPT !.categories =
                            deleteDoc(firestore.categories, id)]
        /\ response' =
              Responses(Response("deleteCategory", id, Undef, "", FALSE,
                                 None),
                        Response("deleteCategory", id, Undef, "", FALSE,
                                 None))
    /\ UNCHANGED <<now, backend, issued, normVars, inputVars, calcVars,
                   coreVars, reportVars, asyncVars>>

NextBoth ==
    \/ BothGetSnapshot \/ BothAddTransaction \/ BothUpdateTransaction
    \/ BothDeleteTransaction \/ BothAddCategory \/ BothUpdateCategory
    \/ BothDeleteCategory

SpecBoth == InitBoth /\ [][NextBoth]_vars

\* The records of a list, whatever their order.
Records(list) == {list[i] : i \in DOMAIN list}

\* Two answers a caller cannot tell apart: both calls fail or both succeed,
\* and two returned snapshots hold the same records.
SameAnswer(local, firebase) ==
    /\ (local.error = "") = (firebase.error = "")
    /\ (local.snapshot = None) = (firebase.snapshot = None)
    /\ local.snapshot # None =>
          /\ Records(local.snapshot.transactions)
                = Records(firebase.snapshot.transactions)
          /\ Records(local.snapshot.categories)
                = Records(firebase.snapshot.categories)
          /\ Records(local.snapshot.periods)
                = Records(firebase.snapshot.periods)
          /\ local.snapshot.settings = firebase.snapshot.settings

\* C15: from the same stored data, every sequence of repository operations
\* has the same results and the same later snapshots on the local-storage
\* repository and on the Firestore repository, up to generated ids and
\* timestamps, update and delete calls for a missing id included.
C15_BackendsInterchangeable ==
    SameAnswer(response.local, response.firebase)

-----------------------------------------------------------------------------
(* addTransaction, one write at a time *)

\* A category addCategory stored under the first generated id.
StoredCategory ==
    << <<"name", Str("Ventas")>>, <<"type", Str("income")>>,
       <<"isDefault", Bool(TRUE)>>, <<"id", Str(generateId(1))>> >>

\* The first write of the local addTransaction: the category list, when
\* normalizeTransactionInput made it longer.
LocalSaveNewCategories(ls, result, categories) ==
    IF Len(result.categories) # Len(categories)
    THEN saveCategories(ls, result.categories) ELSE ls

\* The second write of the local addTransaction: the new transaction.
LocalSaveNewTransaction(ls, result, id, clock) ==
    storageAddTransaction(ls,
        Put(Put(Put(result.transaction, "id", Str(id)),
                "createdAt", Str(toISOString(clock))),
            "updatedAt", Str(toISOString(clock))))

\* The awaited setDoc calls for the categories that are not stored yet,
\* left out.
FirebaseSaveNoCategories(fs, result, categories) == fs

\* The first writes of the Firestore addTransaction: one setDoc with merge
\* for each category that is not stored yet, awaited together.
FirebaseSaveNewCategories(fs, result, categories) ==
    [fs EXCEPT !.categories =
        MergeAll(fs.categories,
            SelectSeq(result.categories,
                LAMBDA c : Get(c, "id") \notin
                    {Get(categories[i], "id") : i \in DOMAIN categories}))]

\* The last write of the Firestore addTransaction: the new document.
FirebaseSaveNewTransaction(fs, result, id, clock) ==
    [fs EXCEPT !.transactions =
        setDoc(fs.transactions, id,
            sanitizeFirestoreData(
                Put(Put(Put(result.transaction,
                            "createdAt", Str(toISOString(clock))),
                        "updatedAt", Str(toISOString(clock))),
                    "id", Str(id))))]

InitAdd ==
    /\ now = [day |-> DayOf(2024, 1, 17), ms |-> 8 * 60 * 60 * 1000]
    /\ backend \in {"local", "firebase"}
    /\ \E stored \in {<<>>, <<StoredCategory>>} :
        /\ localStorage =
              [transactions |-> NoItem,
               categories |-> IF backend = "local" /\ stored # <<>>
                              THEN setItem(stored) ELSE NoItem,
               periods |-> NoItem, settings |-> NoItem]
        /\ firestore =
              [transactions |-> {},
               categories |-> IF backend = "firebase"
                              THEN MergeAll({}, stored) ELSE {},
               periods |-> {},
               settings |-> [exists |-> FALSE, data |-> <<>>]]
        /\ issued = Len(stored)
    /\ calls = 0
    /\ response = Response("init", "", Undef, "", FALSE, None)
    /\ pending = None
    /\ hook = None
    /\ selectedMonth = None /\ stats = None /\ weeklyBreakdown = None
    /\ IdleNorm /\ IdleInput /\ IdleCalc /\ IdleCore

\* addTransaction up to its first write: the categories are read and the
\* input normalized; a null result throws.
AddTransactionBeginsWith(data, categories, result) ==
    /\ pending' =
          IF result = Null THEN None
          ELSE [op |-> "addTransaction", step |-> "categories",
                data |-> data, categories |-> categories, result |-> result]
    /\ response' =
          Response("addTransaction", "", data,
                   IF result = Null THEN "Movimiento inválido para guardar."
                   ELSE "",
                   FALSE, None)

AddTransactionBegins ==
    /\ pending = None
    /\ issued < MaxIds
    /\ Call
    /\ \E data \in CreationInputs :
        \/ /\ backend = "local"
           /\ AddTransactionBeginsWith(data, getCategories(localStorage),
                 normalizeTransactionInput(data, getCategories(localStorage)))
        \/ /\ backend = "firebase"
           /\ AddTransactionBeginsWith(data,
                 fetchCollection(firestore.categories),
                 normalizeTransactionInput(data,
                     fetchCollection(firestore.categories)))
    /\ UNCHANGED <<now, backend, localStorage, firestore, issued, hook,
                   normVars, inputVars, calcVars, coreVars,
                   selectedMonth, stats, weeklyBreakdown>>

AddTransactionSavesCategories ==
    /\ pending # None
    /\ pending.step = "categories"
    /\ localStorage' =
          IF backend = "local"
          THEN LocalSaveNewCategories(localStorage, pending.result,
                                      pending.categories)
          ELSE localStorage
    /\ firestore' =
          IF backend = "firebase"
          THEN FirebaseSaveNewCategories(firestore, pending.result,
                                         pending.categories)
          ELSE firestore
    /\ pending' = [pending EXCEPT !.step = "transaction"]
    /\ UNCHANGED <<now, backend, issued, calls, response, hook,
                   normVars, inputVars, calcVars, coreVars,
                   selectedMonth, stats, weeklyBreakdown>>

AddTransactionSavesTransaction ==
    /\ pending # None
    /\ pending.step = "transaction"
    /\ localStorage' =
          IF backend = "local"
          THEN LocalSaveNewTransaction(localStorage, pending.result,
                                       generateId(issued + 1), now)
          ELSE localStorage
    /\ firestore' =
          IF backend = "firebase"
          THEN FirebaseSaveNewTransaction(firestore, pending.result,
                                          generateId(issued + 1), now)
          ELSE firestore
    /\ issued' = issued + 1
    /\ pending' = None
    /\ UNCHANGED <<now, backend, calls, response, hook,
                   normVars, inputVars, calcVars, coreVars,
                   selectedMonth, stats, weeklyBreakdown>>

NextAdd ==
    \/ AddTransactionBegins
    \/ AddTransactionSavesCategories
    \/ AddTransactionSavesTransaction
    \/ Tick

SpecAdd == InitAdd /\ [][NextAdd]_vars

\* Every stored transaction names a stored category.
NoAbsentCategory(transactions, categories) ==
    \A i \in DOMAIN transactions :
        \E j \in DOMAIN categories :
            Get(categories[j], "id") = Get(transactions[i], "categoryId")

\* C24: when addTransaction has to synthesize an Uncategorized category, the
\* category is persisted before the transaction on both backends: the store
\* never holds the new transaction while the category it references is
\* absent, and the categories that were stored already are not rewritten.
C24_CategoryBeforeTransaction ==
    [][/\ NoAbsentCategory(StoredTransactions', StoredCategories')
       /\ \A i \in DOMAIN StoredCategories :
             \E j \in DOMAIN StoredCategories' :
                 StoredCategories'[j] = StoredCategories[i]
       /\ StoredTransactions' # StoredTransactions
             => StoredCategories' = StoredCategories]_vars

\* The placeholder of an expense was stored next to the category that was
\* there, and the expense itself is not stored yet.
C24_Witness ==
    /\ pending # None
    /\ pending.step = "transaction"
    /\ StoredTransactions = <<>>
    /\ Len(StoredCategories) = 2
    /\ \E j \in DOMAIN StoredCategories :
          Get(StoredCategories[j], "id") = Str("cat-uncategorized-expense")
    /\ Get(pending.result.transaction, "categoryId")
          = Str("cat-uncategorized-expense")

-----------------------------------------------------------------------------
(* firebase/treasuryRepository.ts: getSnapshot next to deleteTransaction *)

\* Transaction documents whose category is not stored: getSnapshot repairs
\* them and writes them back.
StoredOrphan == [id |-> generateId(1), data |-> Put(txOrphan, "id", Str(generateId(1)))]
StoredExpense == [id |-> generateId(2), data |-> Put(txExpense, "id", Str(generateId(2)))]

\* getSnapshot up to its writes (lines 102-114): the four collections are
\* read and normalized.
FirebaseSnapshotRead(fs, clock) ==
    normalizeTreasurySnapshot(FirebaseReadSnapshot(fs), clock)

\* The writes of getSnapshot (lines 116-141), made with the result that was
\* computed when the collections were read.
FirebaseWriteBack(fs, result) == FirebaseStoreAfterGetSnapshot(fs, result)

InitDelete ==
    /\ now = [day |-> DayOf(2024, 1, 17), ms |-> 8 * 60 * 60 * 1000]
    /\ backend = "firebase"
    /\ localStorage = [transactions |-> NoItem, categories |-> NoItem,
                       periods |-> NoItem, settings |-> NoItem]
    /\ \E stored \in (SUBSET {StoredOrphan, StoredExpense}) \ {{}} :
          firestore = [transactions |-> stored, categories |-> {},
                       periods |-> {},
                       settings |-> [exists |-> FALSE, data |-> <<>>]]
    /\ issued = MaxIds
    /\ calls = 0
    /\ response = <<>>
    /\ pending = {}
    /\ hook = None
    /\ selectedMonth = None /\ stats = None /\ weeklyBreakdown = None
    /\ IdleNorm /\ IdleInput /\ IdleCalc /\ IdleCore

\* getSnapshot is called and reads the collections; its writes are still to
\* come.
GetSnapshotReads ==
    /\ Call
    /\ pending' = pending \cup
          {[call |-> calls + 1, op |-> "getSnapshot",
            result |-> FirebaseSnapshotRead(firestore, now)]}
    /\ UNCHANGED <<now, backend, localStorage, firestore, issued, response,
                   hook, normVars, inputVars, calcVars, coreVars,
                   selectedMonth, stats, weeklyBreakdown>>

\* A getSnapshot that has read writes its result back and returns.
GetSnapshotWritesBack ==
    /\ \E p \in pending :
        /\ firestore' = FirebaseWriteBack(firestore, p.result)
        /\ pending' = pending \ {p}
        /\ response' = Append(response,
              Response("getSnapshot", "", Undef, "", p.result.changed, None))
    /\ UNCHANGED <<now, backend, localStorage, issued, calls, hook,
                   normVars, inputVars, calcVars, coreVars,
                   selectedMonth, stats, weeklyBreakdown>>

\* deleteTransaction(id) runs to completion.
DeleteTransactionCompletes ==
    /\ Call
    /\ \E id \in GeneratedIds :
        /\ firestore' = [firestore EXCEPT !.transactions =
                            deleteDoc(firestore.transactions, id)]
        /\ response' = Append(response,
              Response("deleteTransaction", id, Undef, "", FALSE, None))
    /\ UNCHANGED <<now, backend, localStorage, issued, pending, hook,
                   normVars, inputVars, calcVars, coreVars,
                   selectedMonth, stats, weeklyBreakdown>>

NextDelete ==
    \/ GetSnapshotReads
    \/ GetSnapshotWritesBack
    \/ DeleteTransactionCompletes
    \/ Tick

SpecDelete == InitDelete /\ [][NextDelete]_vars

\* The ids whose deleteTransaction has completed.
DeletedIds ==
    {response[i].id : i \in {j \in DOMAIN response :
                                response[j].op = "deleteTransaction"}}

\* C25: once deleteTransaction(id) has completed, no later state of the
\* Firestore store contains a transaction document with that id, even when
\* a getSnapshot that read the collection before the delete performs its
\* repair write-back after the delete.
C25_DeletedStaysDeleted ==
    \A id \in DeletedIds : ~DocExists(firestore.transactions, id)

-----------------------------------------------------------------------------
(* firebase/treasuryRepository.ts: updateSettings calls in flight *)

\* saveSettings: setDoc(settingsRef, settings, {merge: true})
FirebaseSaveSettings(doc, settings) ==
    [exists |-> TRUE,
     data |-> IF doc.exists THEN Spread(doc.data, settings) ELSE settings]

\* The partial settings passed to updateSettings.
SettingsUpdates ==
    { << <<"theme", Str("dark")>> >>,
      << <<"currentPeriodId", Str("p1")>> >>,
      << <<"hasCompletedOnboarding", Bool(TRUE)>> >> }

InitSettings ==
    /\ now = [day |-> DayOf(2024, 1, 17), ms |-> 8 * 60 * 60 * 1000]
    /\ backend = "firebase"
    /\ localStorage = [transactions |-> NoItem, categories |-> NoItem,
                       periods |-> NoItem, settings |-> NoItem]
    /\ \E doc \in {[exists |-> FALSE, data |-> <<>>],
                   [exists |-> TRUE, data |-> DEFAULT_SETTINGS]} :
          firestore = [transactions |-> {}, categories |-> {},
                       periods |-> MergeAll({}, <<perA>>), settings |-> doc]
    /\ issued = 0
    /\ calls = 0
    /\ response = <<>>
    /\ pending = {}
    /\ hook = None
    /\ selectedMonth = None /\ stats = None /\ weeklyBreakdown = None
    /\ IdleNorm /\ IdleInput /\ IdleCalc /\ IdleCore

\* updateSettings(updates) is called and reads the stored settings
\* (line 254).
UpdateSettingsReads ==
    /\ Call
    /\ \E updates \in SettingsUpdates :
          pending' = pending \cup
              {[call |-> calls + 1, op |-> "updateSettings",
                updates |-> updates,
                current |-> fetchSettings(firestore.settings)]}
    /\ UNCHANGED <<now, backend, localStorage, firestore, issued, response,
                   hook, normVars, inputVars, calcVars, coreVars,
                   selectedMonth, stats, weeklyBreakdown>>

\* An updateSettings that has read saves {...current, ...updates} and
\* returns it (lines 255-257).
UpdateSettingsWrites ==
    /\ \E p \in pending :
        /\ firestore' = [firestore EXCEPT !.settings =
              FirebaseSaveSettings(firestore.settings,
                                   Spread(p.current, p.updates))]
        /\ pending' = pending \ {p}
        /\ response' = Append(response,
              Response("updateSettings", "", p.updates, "", FALSE,
                       Spread(p.current, p.updates)))
    /\ UNCHANGED <<now, backend, localStorage, issued, calls, hook,
                   normVars, inputVars, calcVars, coreVars,
                   selectedMonth, stats, weeklyBreakdown>>

NextSettings ==
    \/ UpdateSettingsReads
    \/ UpdateSettingsWrites
    \/ Tick

SpecSettings == InitSettings /\ [][NextSettings]_vars

\* The stored settings carry every property of `updates`.
SettingsCarry(updates) ==
    \A i \in DOMAIN updates :
        Get(fetchSettings(firestore.settings), updates[i][1]) = updates[i][2]

\* C26: when two updateSettings calls that change different fields run
\* concurrently on the Firestore backend, after both complete the stored
\* settings carry both new values, whatever the interleaving of their read
\* and write steps.
C26_NoLostSettingsUpdate ==
    (/\ calls = 2
     /\ pending = {}
     /\ Len(response) = 2
     /\ response[1].data # response[2].data)
        => SettingsCarry(response[1].data) /\ SettingsCarry(response[2].data)

-----------------------------------------------------------------------------
(* hooks/useTreasury.ts: the operations of the hook on the Firestore        *)
(* repository, each one a mutation, a getSnapshot and a state update        *)

\* A stored income of the stored category.
StoredIncome ==
    Put(Put(txIncome, "id", Str(generateId(2))),
        "categoryId", Str(generateId(1)))

\* The stores the hook is mounted on.
HookStores ==
    { [transactions |-> txs,
       categories |-> MergeAll({}, <<StoredCategory>>),
       periods |-> {},
       settings |-> [exists |-> FALSE, data |-> <<>>]] :
         txs \in {{}, MergeAll({}, <<StoredIncome>>)} }

\* applySnapshot (lines 21-31)
applySnapshot(state, snap) ==
    [transactions |-> snap.transactions, categories |-> snap.categories,
     periods |-> snap.periods, settings |-> snap.settings]

\* setCategories(snapshot.categories) (lines 116, 123, 129)
setCategories(state, snap) == [state EXCEPT !.categories = snap.categories]

TransactionOperations ==
    {"addTransaction", "updateTransaction", "deleteTransaction"}

\* The state update an operation makes with the snapshot it awaited.
HookStateAfter(op, state, snap) ==
    IF op \in TransactionOperations
    THEN applySnapshot(state, snap)
    ELSE setCategories(state, snap)

\* The hook after loadSnapshot (lines 61-88) on a store with categories.
InitHook ==
    /\ now = [day |-> DayOf(2024, 1, 17), ms |-> 8 * 60 * 60 * 1000]
    /\ backend = "firebase"
    /\ localStorage = [transactions |-> NoItem, categories |-> NoItem,
                       periods |-> NoItem, settings |-> NoItem]
    /\ \E fs \in HookStores :
        /\ firestore = FirebaseWriteBack(fs, FirebaseSnapshotRead(fs, now))
        /\ hook = applySnapshot(None, FirebaseSnapshotRead(fs, now).snapshot)
        /\ issued = 1 + Cardinality(fs.transactions)
    /\ calls = 0
    /\ response = Response("loadSnapshot", "", Undef, "", FALSE, None)
    /\ pending = {}
    /\ selectedMonth = None /\ stats = None /\ weeklyBreakdown = None
    /\ IdleNorm /\ IdleInput /\ IdleCalc /\ IdleCore

\* An operation of the hook is called and its repository call completes:
\* the store becomes `fs`; when the repository call throws, so does the
\* operation, and nothing else of it runs.
HookCalls(op, id, data, fs, error) ==
    /\ Call
    /\ firestore' = fs
    /\ pending' = IF error # "" THEN pending
                  ELSE pending \cup {[call |-> calls + 1, op |-> op,
                                      step |-> "getSnapshot",
                                      snapshot |-> None]}
    /\ response' = IF error # "" THEN Response(op, id, data, error, FALSE, None)
                   ELSE response
    /\ UNCHANGED <<now, backend, localStorage, hook,
                   normVars, inputVars, calcVars, coreVars,
                   selectedMonth, stats, weeklyBreakdown>>

HookAddTransactionWith(data, categories, result) ==
    /\ HookCalls("addTransaction", "", data,
                 FirebaseStoreAfterAdd(firestore, result, categories,
                                       generateId(issued + 1), now),
                 IF result = Null THEN "Movimiento inválido para guardar."
                 ELSE "")
    /\ issued' = IF result = Null THEN issued ELSE issued + 1

\* addTransaction (lines 94-99), up to the end of repository.addTransaction
HookAddTransaction ==
    /\ issued < MaxIds
    /\ \E data \in CreationInputs :
          HookAddTransactionWith(data, fetchCollection(firestore.categories),
              normalizeTransactionInput(data,
                  fetchCollection(firestore.categories)))

\* updateTransaction (lines 101-105), up to the end of
\* repository.updateTransaction
HookUpdateTransaction ==
    /\ \E id \in GeneratedIds, updates \in TransactionUpdates :
          HookCalls("updateTransaction", id, updates,
                    FirebaseStoreAfterUpdateTransaction(firestore, id,
                                                        updates, now),
                    IF DocExists(firestore.transactions, id) THEN ""
                    ELSE "not-found")
    /\ UNCHANGED issued

\* deleteTransaction (lines 107-111), up to the end of
\* repository.deleteTransaction
HookDeleteTransaction ==
    /\ \E id \in GeneratedIds :
          HookCalls("deleteTransaction", id, Undef,
                    [firestore EXCEPT !.transactions =
                        deleteDoc(firestore.transactions, id)],
                    "")
    /\ UNCHANGED issued

\* addCategory (lines 113-118), up to the end of repository.addCategory
HookAddCategory ==
    /\ issued < MaxIds
    /\ \E data \in CategoryInputs :
          HookCalls("addCategory", "", data,
                    [firestore EXCEPT !.categories =
                        setDoc(firestore.categories, generateId(issued + 1),
                               Put(data, "id", Str(generateId(issued + 1))))],
                    "")
    /\ issued' = issued + 1

\* updateCategory (lines 120-124), up to the end of
\* repository.updateCategory
HookUpdateCategory ==
    /\ \E id \in CategoryIds, updates \in CategoryUpdates :
          HookCalls("updateCategory", id, updates,
                    FirebaseStoreAfterUpdateCategory(firestore, id, updates),
                    IF DocExists(firestore.categories, id) THEN ""
                    ELSE "not-found")
    /\ UNCHANGED issued

\* deleteCategory (lines 126-130), up to the end of
\* repository.deleteCategory
HookDeleteCategory ==
    /\ \E id \in CategoryIds :
          HookCalls("deleteCategory", id, Undef,
                    [firestore EXCEPT !.categories =
                        deleteDoc(firestore.categories, id)],
                    "")
    /\ UNCHANGED issued

\* The getSnapshot of an operation reads the store, repairs it and answers.
HookGetsSnapshotWith(p, result) ==
    /\ firestore' = FirebaseWriteBack(firestore, result)
    /\ pending' = (pending \ {p}) \cup
          {[p EXCEPT !.step = "apply", !.snapshot = result.snapshot]}

HookGetsSnapshot ==
    /\ \E p \in pending :
        /\ p.step = "getSnapshot"
        /\ HookGetsSnapshotWith(p, FirebaseSnapshotRead(firestore, now))
    /\ UNCHANGED <<now, backend, localStorage, issued, calls, response, hook,
                   normVars, inputVars, calcVars, coreVars,
                   selectedMonth, stats, weeklyBreakdown>>

\* The answer of getSnapshot reaches the operation, which updates the
\* state of the hook with it and returns.
HookApplies ==
    /\ \E p \in pending :
        /\ p.step = "apply"
        /\ hook' = HookStateAfter(p.op, hook, p.snapshot)
        /\ pending' = pending \ {p}
        /\ response' = Response(p.op, "", Undef, "", FALSE, None)
    /\ UNCHANGED <<now, backend, localStorage, firestore, issued, calls,
                   normVars, inputVars, calcVars, coreVars,
                   selectedMonth, stats, weeklyBreakdown>>

\* The transaction operations, started without waiting for each other.
NextConverge ==
    \/ HookAddTransaction
    \/ HookUpdateTransaction
    \/ HookDeleteTransaction
    \/ HookGetsSnapshot
    \/ HookApplies
    \/ Tick

SpecConverge == InitHook /\ [][NextConverge]_vars

\* C27: when several addTransaction, updateTransaction and deleteTransaction
\* operations of the hook are started without waiting for each other, then
\* once all of them have completed the transactions held in hook state
\* equal the transactions of the repository's latest snapshot.
C27_HookConverges ==
    (calls > 0 /\ pending = {})
        => hook.transactions
              = FirebaseSnapshotRead(firestore, now).snapshot.transactions

\* Every operation of the hook on transactions and categories.
NextHook ==
    \/ HookAddTransaction
    \/ HookUpdateTransaction
    \/ HookDeleteTransaction
    \/ HookAddCategory
    \/ HookUpdateCategory
    \/ HookDeleteCategory
    \/ HookGetsSnapshot
    \/ HookApplies

SpecHook == InitHook /\ [][NextHook]_vars

\* The categoryId of `transaction` names a category of its type in
\* `categories`.
ResolvesIn(transaction, categories) ==
    \E j \in DOMAIN categories :
        /\ Get(categories[j], "id") = Get(transaction, "categoryId")
        /\ Get(categories[j], "type") = Get(transaction, "type")

\* C28: after any operation of the hook completes (addCategory,
\* updateCategory changing a category's type and deleteCategory of a used
\* category included), every transaction in hook state has a categoryId
\* that resolves to a category of the same type in the hook's category
\* list.
C28_HookReferentialIntegrity ==
    (calls > 0 /\ pending = {})
        => \A i \in DOMAIN hook.transactions :
              ResolvesIn(hook.transactions[i], hook.categories)

====
